---------------------------- MODULE Spec2Model ----------------------------
(***************************************************************************)
(* A model of the four LADSPA filter plugins comb.c, fir.c, iir.c and      *)
(* reson.c: one plugin instance (a filter_type struct), the host memory    *)
(* its ports point into, the C heap holding its history buffers, and the   *)
(* host driving the descriptor's callbacks (instantiate, connect_port,     *)
(* activate, run, deactivate, cleanup).                                    *)
(*                                                                         *)
(* LADSPA_Data (float) values are modelled as exact rationals <<n, d>> in  *)
(* lowest terms.  The sample and parameter sets below are chosen so that   *)
(* every intermediate value of comb, fir and iir is a dyadic rational with *)
(* a short mantissa, which binary32/binary64 arithmetic computes exactly.  *)
(* reson.c uses acos/cos/sin and M_PI; it is evaluated in real arithmetic  *)
(* at parameter points where these are rational (see reson_filter_channel).*)
(***************************************************************************)
EXTENDS Integers, Sequences, FiniteSets, TLC

(***************************************************************************)
(* Bounds of the model.                                                    *)
(***************************************************************************)
\* largest sample_count the host passes to run(); also the length of the
\* host's audio buffers
MaxFrames == 2
\* host calls made over the life of the instance: a run of n frames costs
\* max(n, 1), a re-activation costs 1
Budget == 3
ImpulseFrames == 4

(***************************************************************************)
(* Program constants.                                                      *)
(***************************************************************************)
MAX_DELAY == 100
MIN_FREQ == 1
NULL == 0
\* the content of a struct field malloc() returned and nobody assigned yet
Junk == -1

(***************************************************************************)
(* LADSPA_Data arithmetic: exact rationals <<numerator, denominator>>.     *)
(***************************************************************************)
Abs(a) == IF a < 0 THEN -a ELSE a

RECURSIVE GCD(_, _)
GCD(a, b) == IF b = 0 THEN a ELSE GCD(b, a % b)

Rat(n, d) ==
  LET g == GCD(Abs(n), Abs(d))
      s == IF d < 0 THEN -1 ELSE 1
  IN  <<(s * n) \div g, (s * d) \div g>>

Zero == <<0, 1>>
One == <<1, 1>>
Half == <<1, 2>>
Int2Rat(k) == <<k, 1>>

RNeg(x) == <<-x[1], x[2]>>
RAdd(x, y) ==
  LET g == GCD(x[2], y[2])
  IN  Rat(x[1] * (y[2] \div g) + y[1] * (x[2] \div g), (x[2] \div g) * y[2])
RSub(x, y) == RAdd(x, RNeg(y))
RMul(x, y) ==
  LET g1 == GCD(Abs(x[1]), y[2])
      g2 == GCD(Abs(y[1]), x[2])
  IN  IF x[1] = 0 \/ y[1] = 0 THEN Zero
      ELSE <<(x[1] \div g1) * (y[1] \div g2), (x[2] \div g2) * (y[2] \div g1)>>
RDiv(x, y) == RMul(x, Rat(y[2], y[1]))
RLess(x, y) == x[1] * y[2] < y[1] * x[2]
\* fabs()
RAbs(x) == <<Abs(x[1]), x[2]>>
\* the conversion (unsigned int)x, (unsigned long)x of a value x >= 0:
\* truncation toward zero
Trunc(x) == x[1] \div x[2]
\* pow(x, k) for an unsigned k
RECURSIVE RPow(_, _)
RPow(x, k) ==
  IF k = 0 THEN One
  ELSE IF k % 2 = 0 THEN LET h == RPow(x, k \div 2) IN RMul(h, h)
       ELSE RMul(x, RPow(x, k - 1))
\* sqrt() of a rational square; used for sin(acos(x)) = sqrt(1 - x^2)
ISqrt(k) == CHOOSE s \in 0..k : s * s = k
RSqrt(x) == <<ISqrt(x[1]), ISqrt(x[2])>>


(***************************************************************************)
(* Host memory.  The host owns one cell per control port and one buffer of *)
(* MaxFrames samples per audio port; data_location pointers are addresses  *)
(* into mem.  Address 0 is NULL.                                           *)
(***************************************************************************)
HostAddr(role) ==
  CASE role = "ctl1_l" -> 1
    [] role = "ctl2_l" -> 2
    [] role = "ctl1_r" -> 3
    [] role = "ctl2_r" -> 4
    [] role = "in_l" -> 5
    [] role = "out_l" -> 5 + MaxFrames
    [] role = "in_r" -> 5 + 2 * MaxFrames
    [] role = "out_r" -> 5 + 3 * MaxFrames
MemSize == 4 + 4 * MaxFrames
Addrs == 1..MemSize
AudioAddrs == {a \in Addrs : a >= HostAddr("in_l")}

Kernels == {"comb", "fir", "iir", "reson"}

VARIABLES
  kernel,   \* which plugin library the instance comes from
  stereo,   \* which of its two descriptors (mono_descriptor/stereo_descriptor)
  filter,   \* the filter_type struct behind the LADSPA_Handle
  heap,     \* the blocks calloc() returned: <<[live, data]>>, pointer = index
  mem,      \* host memory the ports point into
  life,     \* the host's view of the instance's lifecycle
  fault,    \* undefined behaviour the instance has run into, or "none"
  log,      \* the run() calls so far, each tagged with its activation
  fresh,    \* the dynamic state right after the first activation
  acts,     \* number of activations so far
  bind,     \* the last connect_port() call: [port, loc, before]
  budget,   \* host calls left
  peer      \* a second instance of the same descriptor: [filter, life, stray]

vars == <<kernel, stereo, filter, heap, mem, life, fault, log, fresh, acts,
          bind, budget, peer>>

(***************************************************************************)
(* The C heap: calloc() and free().                                        *)
(***************************************************************************)
\* the freed blocks of count elements; the allocator hands such a block out
\* again before it extends the heap
Reusable(h, count) ==
  {p \in 1..Len(h) : ~h[p].live /\ DOMAIN h[p].data = 0..(count - 1)}
\* calloc(count, size): the pointer it returns (a block's index) ...
calloc_ptr(h, count) ==
  IF Reusable(h, count) = {} THEN Len(h) + 1
  ELSE CHOOSE p \in Reusable(h, count) : \A q \in Reusable(h, count) : p <= q
\* ... and the heap afterwards, with that block allocated and zeroed
calloc(h, count) ==
  LET b == [live |-> TRUE, data |-> [i \in 0..(count - 1) |-> Zero]]
  IN  IF Reusable(h, count) = {} THEN Append(h, b)
      ELSE [h EXCEPT ![calloc_ptr(h, count)] = b]
\* is free(p) defined?  p must be NULL or a block that is still allocated
FreeDefined(h, p) == p = NULL \/ (p \in 1..Len(h) /\ h[p].live)
free(h, p) == IF p = NULL THEN h ELSE [h EXCEPT ![p].live = FALSE]

\* what dereferencing the history pointer p does: "none" when p is a block
\* that is still allocated
Deref(h, p) ==
  IF p = NULL THEN "null_dereference"
  ELSE IF ~h[p].live THEN "use_after_free" ELSE "none"

\* an access event of a run() call:
\* <<"R" or "W", "mem" or "heap", block, index, value read or written>>
MemRead(m, a) == <<"R", "mem", 0, a, m.mem[a]>>
MemWrite(a, v) == <<"W", "mem", 0, a, v>>
HeapRead(m, b, i) == <<"R", "heap", b, i, m.heap[b].data[i]>>
HeapWrite(b, i, v) == <<"W", "heap", b, i, v>>

(***************************************************************************)
(* comb.c                                                                  *)
(***************************************************************************)
comb_instantiate_filter(sample_rate) ==
  [delay_control_value_l |-> Junk, sharp_control_value_l |-> Junk,
   delay_control_value_r |-> Junk, sharp_control_value_r |-> Junk,
   input_buffer_l |-> Junk, output_buffer_l |-> Junk,
   input_buffer_r |-> Junk, output_buffer_r |-> Junk,
   sample_rate |-> sample_rate,
   history_l |-> Junk, history_r |-> Junk,
   history_position |-> Junk, history_length |-> Junk]

\* returns <<filter, heap>>
comb_activate_filter(f, h, st) ==
  LET h1 == calloc(h, MAX_DELAY)
      h2 == IF st THEN calloc(h1, MAX_DELAY) ELSE h1
  IN  <<[f EXCEPT !.history_position = 0,
                  !.history_length = MAX_DELAY,
                  !.history_l = calloc_ptr(h, MAX_DELAY),
                  !.history_r = IF st THEN calloc_ptr(h1, MAX_DELAY) ELSE NULL],
        h2>>

\* comb_connect_port_to_filter with the first case's break missing
comb_connect_port_fallthrough(f, port, data_location) ==
  CASE port = 0 -> [f EXCEPT !.delay_control_value_l = data_location,
                             !.sharp_control_value_l = data_location]
    [] port = 1 -> [f EXCEPT !.sharp_control_value_l = data_location]
    [] port = 4 -> [f EXCEPT !.delay_control_value_r = data_location]
    [] port = 5 -> [f EXCEPT !.sharp_control_value_r = data_location]
    [] port = 2 -> [f EXCEPT !.input_buffer_l = data_location]
    [] port = 3 -> [f EXCEPT !.output_buffer_l = data_location]
    [] port = 6 -> [f EXCEPT !.input_buffer_r = data_location]
    [] port = 7 -> [f EXCEPT !.output_buffer_r = data_location]
    [] OTHER -> f

comb_connect_port_to_filter(f, port, data_location) ==
  CASE port = 0 -> [f EXCEPT !.delay_control_value_l = data_location]
    [] port = 1 -> [f EXCEPT !.sharp_control_value_l = data_location]
    [] port = 4 -> [f EXCEPT !.delay_control_value_r = data_location]
    [] port = 5 -> [f EXCEPT !.sharp_control_value_r = data_location]
    [] port = 2 -> [f EXCEPT !.input_buffer_l = data_location]
    [] port = 3 -> [f EXCEPT !.output_buffer_l = data_location]
    [] port = 6 -> [f EXCEPT !.input_buffer_r = data_location]
    [] port = 7 -> [f EXCEPT !.output_buffer_r = data_location]
    [] OTHER -> f

\* input ++; output ++;
NextPtr(p) == p + 1

\* comb_output with the two coefficients exchanged
comb_output_swapped(in, sharpness, delay, hist) ==
  RAdd(RMul(in, RPow(sharpness, delay)),
       RMul(RSub(One, RPow(sharpness, delay)), hist))

\* *output = *input * (1 - pow(sharpness, delay))
\*           + pow(sharpness, delay) * *(history + history_position)
comb_output(in, sharpness, delay, hist) ==
  RAdd(RMul(in, RSub(One, RPow(sharpness, delay))),
       RMul(RPow(sharpness, delay), hist))

\* comb_write_slot one element short of the delay
comb_write_slot_short(delay, history_position, history_length) ==
  (delay - 1 + history_position) % history_length

\* (delay + history_position) % history_length
comb_write_slot(delay, history_position, history_length) ==
  (delay + history_position) % history_length

\* history_position = (history_position + 1) % history_length
comb_next_position(history_position, history_length) ==
  (history_position + 1) % history_length

\* one iteration of filter_channel's loop body on the machine state
\* m = [filter, heap, mem, acc, iters, fault, conv]
comb_frame(m, input, output, delay, sharpness, history, history_position, history_length) ==
  IF Deref(m.heap, history) # "none"
  THEN [m EXCEPT !.fault = Deref(m.heap, history)]
  ELSE
  LET out == comb_output(m.mem[input], sharpness, delay,
                         m.heap[history].data[history_position])
      mem1 == [m.mem EXCEPT ![output] = out]
      slot == comb_write_slot(delay, history_position, history_length)
  IN  [m EXCEPT !.mem = mem1,
                !.heap = [m.heap EXCEPT ![history].data[slot] = mem1[output]],
                !.acc = m.acc \o <<MemRead(m, input),
                                   HeapRead(m, history, history_position),
                                   MemWrite(output, out),
                                   <<"R", "mem", 0, output, mem1[output]>>,
                                   HeapWrite(history, slot, mem1[output])>>,
                !.iters = m.iters + 1]

\* while(sample_count -- > 0) { ... }; history_position is a by-value
\* parameter: the advanced cursor is local to the call and is dropped
RECURSIVE comb_filter_channel(_, _, _, _, _, _, _, _, _, _)
comb_filter_channel(m, input, output, delay, sharpness, history, history_position, history_length, sample_count, sample_rate) ==
  IF sample_count > 0 /\ m.fault = "none"
  THEN comb_filter_channel(
         comb_frame(m, input, output, delay, sharpness, history,
                    history_position, history_length),
         NextPtr(input), NextPtr(output), delay, sharpness, history,
         comb_next_position(history_position, history_length),
         history_length, sample_count - 1, sample_rate)
  ELSE m

\* a control port read at the call site: *filter->..._control_value_x
CtlRead(m, a) == [m EXCEPT !.acc = Append(m.acc, MemRead(m, a))]

\* comb_run_mono_filter working in a scratch buffer it allocates
comb_run_mono_filter_scratch_buffer(m, sample_count) ==
  LET f == m.filter
      m0 == [m EXCEPT !.heap = calloc(m.heap, 1)]
      m1 == CtlRead(CtlRead(m0, f.delay_control_value_l), f.sharp_control_value_l)
  IN  comb_filter_channel(m1, f.input_buffer_l, f.output_buffer_l,
                          Trunc(m.mem[f.delay_control_value_l]),
                          m.mem[f.sharp_control_value_l], f.history_l,
                          f.history_position, f.history_length,
                          sample_count, f.sample_rate)

comb_run_mono_filter(m, sample_count) ==
  LET f == m.filter
      m1 == CtlRead(CtlRead(m, f.delay_control_value_l), f.sharp_control_value_l)
  IN  comb_filter_channel(m1, f.input_buffer_l, f.output_buffer_l,
                          Trunc(m.mem[f.delay_control_value_l]),
                          m.mem[f.sharp_control_value_l], f.history_l,
                          f.history_position, f.history_length,
                          sample_count, f.sample_rate)

\* comb_run_stereo_filter with the left channel's controls passed to both
\* filter_channel calls
comb_run_stereo_filter_left_controls(m, sample_count) ==
  LET f == m.filter
      m1 == comb_run_mono_filter(m, sample_count)
      m2 == CtlRead(CtlRead(m1, f.delay_control_value_l), f.sharp_control_value_l)
  IN  comb_filter_channel(m2, f.input_buffer_r, f.output_buffer_r,
                          Trunc(m1.mem[f.delay_control_value_l]),
                          m1.mem[f.sharp_control_value_l], f.history_r,
                          f.history_position, f.history_length,
                          sample_count, f.sample_rate)

comb_run_stereo_filter(m, sample_count) ==
  LET f == m.filter
      m1 == comb_run_mono_filter(m, sample_count)
      m2 == CtlRead(CtlRead(m1, f.delay_control_value_r), f.sharp_control_value_r)
  IN  comb_filter_channel(m2, f.input_buffer_r, f.output_buffer_r,
                          Trunc(m1.mem[f.delay_control_value_r]),
                          m1.mem[f.sharp_control_value_r], f.history_r,
                          f.history_position, f.history_length,
                          sample_count, f.sample_rate)

\* returns <<heap, fault>>: free(history_l); if(history_r) free(history_r);
\* neither pointer is reset, so a second call frees the same blocks again
history_deactivate_filter(f, h) ==
  IF f.history_l = Junk \/ f.history_r = Junk THEN <<h, "free_uninitialized">>
  ELSE IF ~FreeDefined(h, f.history_l) \/ ~FreeDefined(h, f.history_r)
       THEN <<h, "double_free">>
       ELSE <<free(free(h, f.history_l), f.history_r), "none">>

(***************************************************************************)
(* fir.c                                                                   *)
(***************************************************************************)
\* (unsigned long)((1 / (2 * freq)) * sample_rate)
get_sample_shift(freq, sample_rate) ==
  Trunc(RMul(RDiv(One, RMul(Int2Rat(2), freq)), Int2Rat(sample_rate)))

fir_instantiate_filter(sample_rate) ==
  [freq_control_value_l |-> Junk, wet_control_value_l |-> Junk,
   freq_control_value_r |-> Junk, wet_control_value_r |-> Junk,
   input_buffer_l |-> Junk, output_buffer_l |-> Junk,
   input_buffer_r |-> Junk, output_buffer_r |-> Junk,
   sample_rate |-> sample_rate,
   history_l |-> Junk, history_r |-> Junk,
   history_position |-> Junk, history_length |-> Junk]

\* fir_activate_filter that resets the cursor on the first activation only
fir_activate_filter_keeps_position(f, h, st) ==
  LET len == get_sample_shift(Int2Rat(MIN_FREQ), f.sample_rate)
      h1 == calloc(h, len)
      h2 == IF st THEN calloc(h1, len) ELSE h1
  IN  <<[f EXCEPT !.history_position =
                      IF f.history_position = Junk THEN 0
                      ELSE f.history_position,
                  !.history_length = len,
                  !.history_l = calloc_ptr(h, len),
                  !.history_r = IF st THEN calloc_ptr(h1, len) ELSE NULL],
        h2>>

\* returns <<filter, heap>>
fir_activate_filter(f, h, st) ==
  LET len == get_sample_shift(Int2Rat(MIN_FREQ), f.sample_rate)
      h1 == calloc(h, len)
      h2 == IF st THEN calloc(h1, len) ELSE h1
  IN  <<[f EXCEPT !.history_position = 0,
                  !.history_length = len,
                  !.history_l = calloc_ptr(h, len),
                  !.history_r = IF st THEN calloc_ptr(h1, len) ELSE NULL],
        h2>>

fir_connect_port_to_filter(f, port, data_location) ==
  CASE port = 0 -> [f EXCEPT !.freq_control_value_l = data_location]
    [] port = 1 -> [f EXCEPT !.wet_control_value_l = data_location]
    [] port = 4 -> [f EXCEPT !.freq_control_value_r = data_location]
    [] port = 5 -> [f EXCEPT !.wet_control_value_r = data_location]
    [] port = 2 -> [f EXCEPT !.input_buffer_l = data_location]
    [] port = 3 -> [f EXCEPT !.output_buffer_l = data_location]
    [] port = 6 -> [f EXCEPT !.input_buffer_r = data_location]
    [] port = 7 -> [f EXCEPT !.output_buffer_r = data_location]
    [] OTHER -> f

\* fir_output with the history term not scaled by wet / 2
fir_output_history_unscaled(in, wet, hist) ==
  RAdd(RMul(in, RSub(One, RDiv(wet, Int2Rat(2)))), hist)

\* *input * (1 - *wet / 2) + *(history + history_position) * *wet / 2
fir_output(in, wet, hist) ==
  RAdd(RMul(in, RSub(One, RDiv(wet, Int2Rat(2)))),
       RDiv(RMul(hist, wet), Int2Rat(2)))

\* (sample_shift + filter->history_position) % filter->history_length
\* fir_write_slot without the shift: the input is stored at the cursor
fir_write_slot_at_cursor(sample_shift, history_position, history_length) ==
  history_position % history_length

fir_write_slot(sample_shift, history_position, history_length) ==
  (sample_shift + history_position) % history_length

\* filter->history_position = (filter->history_position + 1) % history_length
fir_next_position(history_position, history_length) ==
  (history_position + 1) % history_length

\* the history write of one channel in one iteration
fir_store(m, input, history, sample_shift) ==
  LET f == m.filter
      slot == fir_write_slot(sample_shift, f.history_position, f.history_length)
  IN  [m EXCEPT !.heap = [m.heap EXCEPT ![history].data[slot] = m.mem[input]],
                !.acc = m.acc \o <<MemRead(m, input),
                                   HeapWrite(history, slot, m.mem[input])>>]

\* fir_mix in two statements: *output = history * wet / 2, then
\* *output += *input * (1 - wet / 2)
fir_mix_two_statements(m, input, output, wet, history) ==
  LET f == m.filter
      hist == m.heap[history].data[f.history_position]
      mem1 == [m.mem EXCEPT ![output] = RMul(hist, RDiv(m.mem[wet], Int2Rat(2)))]
      out == RAdd(mem1[output],
                  RMul(mem1[input],
                       RSub(One, RDiv(mem1[wet], Int2Rat(2)))))
  IN  [m EXCEPT !.mem = [mem1 EXCEPT ![output] = out],
                !.acc = m.acc \o <<HeapRead(m, history, f.history_position),
                                   MemRead(m, wet),
                                   MemWrite(output, mem1[output]),
                                   <<"R", "mem", 0, input, mem1[input]>>,
                                   MemRead(m, wet), MemWrite(output, out)>>]

\* the output write of one channel in one iteration; the wet control is
\* dereferenced here, in every iteration
fir_mix(m, input, output, wet, history) ==
  LET f == m.filter
      out == fir_output(m.mem[input], m.mem[wet],
                        m.heap[history].data[f.history_position])
  IN  [m EXCEPT !.mem = [m.mem EXCEPT ![output] = out],
                !.acc = m.acc \o <<MemRead(m, input), MemRead(m, wet),
                                   HeapRead(m, history, f.history_position),
                                   MemRead(m, wet), MemWrite(output, out)>>]

\* one iteration of run_filter's loop body; i is the number of samples the
\* input and output pointers have advanced.  Both index expressions are
\* unsigned long % filter->history_length: with a history_length of 0 the
\* first of them is a division by zero, which traps or yields an index
\* outside the empty buffer; the call is recorded as faulted at that point.
fir_frame(m, i, sample_shift_l, sample_shift_r, st) ==
  LET f == m.filter
  IN
  IF f.history_length = 0
  THEN [m EXCEPT !.fault = "modulo_by_zero"]
  ELSE IF Deref(m.heap, f.history_l) # "none"
  THEN [m EXCEPT !.fault = Deref(m.heap, f.history_l)]
  ELSE IF st /\ Deref(m.heap, f.history_r) # "none"
  THEN [m EXCEPT !.fault = Deref(m.heap, f.history_r)]
  ELSE
  LET a == fir_store(m, f.input_buffer_l + i, f.history_l, sample_shift_l)
      b == IF st THEN fir_store(a, f.input_buffer_r + i, f.history_r,
                                sample_shift_r)
           ELSE a
      c == fir_mix(b, f.input_buffer_l + i, f.output_buffer_l + i,
                   f.wet_control_value_l, f.history_l)
      d == IF st THEN fir_mix(c, f.input_buffer_r + i, f.output_buffer_r + i,
                              f.wet_control_value_r, f.history_r)
           ELSE c
  IN  [d EXCEPT !.filter.history_position =
                    fir_next_position(f.history_position, f.history_length),
                !.iters = d.iters + 1]

RECURSIVE fir_loop(_, _, _, _, _, _)
fir_loop(m, i, sample_shift_l, sample_shift_r, sample_count, st) ==
  IF sample_count > 0 /\ m.fault = "none"
  THEN fir_loop(fir_frame(m, i, sample_shift_l, sample_shift_r, st),
                NextPtr(i),
                sample_shift_l, sample_shift_r, sample_count - 1, st)
  ELSE m

\* fir_run_filter with a do { ... } while(-- sample_count > 0) loop
fir_run_filter_dowhile(m, sample_count, st) ==
  LET f == m.filter
      sample_shift_l == get_sample_shift(m.mem[f.freq_control_value_l],
                                         f.sample_rate)
      sample_shift_r == IF st THEN get_sample_shift(
                                     m.mem[f.freq_control_value_r],
                                     f.sample_rate)
                        ELSE 0
      m1 == CtlRead(m, f.freq_control_value_l)
      m2 == IF st THEN CtlRead(m1, f.freq_control_value_r) ELSE m1
  IN  fir_loop(fir_frame(m2, 0, sample_shift_l, sample_shift_r, st), 1,
               sample_shift_l, sample_shift_r, sample_count - 1, st)

\* is get_sample_shift's conversion to unsigned long defined?  1 / (2 * 0)
\* is a division by zero whose result has no unsigned long value, and a
\* product of -1 or less has none either
shift_defined(freq, sample_rate) ==
  \/ RLess(Zero, freq)
  \/ /\ RLess(freq, Zero)
     /\ RLess(Int2Rat(-1),
              RMul(RDiv(One, RMul(Int2Rat(2), freq)), Int2Rat(sample_rate)))

\* sample_shift = get_sample_shift(*filter->freq_control_value, sample_rate)
\* at the call site: reads the control; where the conversion is undefined
\* the shift is whatever the build yields for it (m.conv), noted as "U"
fir_read_shift(m, freq_control_value) ==
  LET f == m.filter
      freq == m.mem[freq_control_value]
      m1 == CtlRead(m, freq_control_value)
  IN  IF shift_defined(freq, f.sample_rate)
      THEN <<m1, get_sample_shift(freq, f.sample_rate)>>
      ELSE <<[m1 EXCEPT !.acc = Append(m1.acc,
                                       <<"U", "conv", 0, freq_control_value,
                                         m.conv>>)],
             m.conv>>

fir_run_filter(m, sample_count, st) ==
  LET f == m.filter
      l == fir_read_shift(m, f.freq_control_value_l)
      r == IF st THEN fir_read_shift(l[1], f.freq_control_value_r)
           ELSE <<l[1], 0>>
  IN  fir_loop(r[1], 0, l[2], r[2], sample_count, st)

(***************************************************************************)
(* iir.c                                                                   *)
(***************************************************************************)
\* a LADSPA_Data field nobody has assigned yet
JunkData == <<0, 0>>

iir_instantiate_filter(sample_rate) ==
  [coef_control_value_l |-> Junk, input_buffer_l |-> Junk,
   output_buffer_l |-> Junk,
   coef_control_value_r |-> Junk, input_buffer_r |-> Junk,
   output_buffer_r |-> Junk,
   previous_sample_l |-> JunkData, previous_sample_r |-> JunkData]

iir_activate_filter(f) ==
  [f EXCEPT !.previous_sample_l = Zero, !.previous_sample_r = Zero]

iir_connect_port_to_filter(f, port, data_location) ==
  CASE port = 0 -> [f EXCEPT !.coef_control_value_l = data_location]
    [] port = 3 -> [f EXCEPT !.coef_control_value_r = data_location]
    [] port = 1 -> [f EXCEPT !.input_buffer_l = data_location]
    [] port = 2 -> [f EXCEPT !.output_buffer_l = data_location]
    [] port = 4 -> [f EXCEPT !.input_buffer_r = data_location]
    [] port = 5 -> [f EXCEPT !.output_buffer_r = data_location]
    [] OTHER -> f

\* iir_output with the feedback term not scaled by coef
iir_output_nocoef(in, coef, previous_sample) ==
  RAdd(RMul(in, RSub(One, RAbs(coef))), previous_sample)

\* iir_output with the direct gain squared
iir_output_squared_gain(in, coef, previous_sample) ==
  RAdd(RMul(in, RPow(RSub(One, RAbs(coef)), 2)), RMul(previous_sample, coef))

\* *input * (1 - fabs(coef)) + filter->previous_sample * coef
iir_output(in, coef, previous_sample) ==
  RAdd(RMul(in, RSub(One, RAbs(coef))), RMul(previous_sample, coef))

\* one iteration of run_filter's loop body
iir_frame(m, i, coef_l, coef_r, st) ==
  LET f == m.filter
      out_l == iir_output(m.mem[f.input_buffer_l + i], coef_l,
                          f.previous_sample_l)
      mem1 == [m.mem EXCEPT ![f.output_buffer_l + i] = out_l]
      a == [m EXCEPT !.mem = mem1,
                     !.filter.previous_sample_l = mem1[f.output_buffer_l + i],
                     !.acc = m.acc \o <<MemRead(m, f.input_buffer_l + i),
                                        MemWrite(f.output_buffer_l + i, out_l),
                                        <<"R", "mem", 0, f.output_buffer_l + i,
                                          mem1[f.output_buffer_l + i]>> >>]
      out_r == iir_output(a.mem[f.input_buffer_r + i], coef_r,
                          f.previous_sample_r)
      mem2 == [a.mem EXCEPT ![f.output_buffer_r + i] = out_r]
      b == IF st
           THEN [a EXCEPT !.mem = mem2,
                          !.filter.previous_sample_r =
                              mem2[f.output_buffer_r + i],
                          !.acc = a.acc \o <<MemRead(a, f.input_buffer_r + i),
                                             MemWrite(f.output_buffer_r + i, out_r),
                                             <<"R", "mem", 0, f.output_buffer_r + i,
                                               mem2[f.output_buffer_r + i]>> >>]
           ELSE a
  IN  [b EXCEPT !.iters = b.iters + 1]

RECURSIVE iir_loop(_, _, _, _, _, _)
iir_loop(m, i, coef_l, coef_r, sample_count, st) ==
  IF sample_count > 0
  THEN iir_loop(iir_frame(m, i, coef_l, coef_r, st), NextPtr(i), coef_l,
                coef_r,
                sample_count - 1, st)
  ELSE m

iir_run_filter(m, sample_count, st) ==
  LET f == m.filter
      coef_l == m.mem[f.coef_control_value_l]
      coef_r == IF st THEN m.mem[f.coef_control_value_r] ELSE Zero
      m1 == CtlRead(m, f.coef_control_value_l)
      m2 == IF st THEN CtlRead(m1, f.coef_control_value_r) ELSE m1
  IN  iir_loop(m2, 0, coef_l, coef_r, sample_count, st)

(***************************************************************************)
(* reson.c.  Its coefficients go through M_PI, cos, acos and sin.  They    *)
(* are evaluated in real arithmetic at the points where the result is      *)
(* rational: the bandwidth control holds bw as the rational M_PI * bw, the *)
(* frequency is a fraction of the sample rate whose cosine is rational,    *)
(* and pole_angle = acos(x) is carried as x = cos(pole_angle), with        *)
(* sin(pole_angle) = sqrt(1 - x^2) (acos ranges over [0, pi]).             *)
(***************************************************************************)
\* cos(2 * M_PI * t) for t = freq / sample_rate
CosTurn(t) ==
  CASE t = <<0, 1>> -> One
    [] t = <<1, 6>> -> Half
    [] t = <<1, 4>> -> Zero
    [] t = <<1, 3>> -> RNeg(Half)
    [] t = <<1, 2>> -> RNeg(One)

reson_instantiate_filter(sample_rate) ==
  [freq_control_value_l |-> Junk, bw_control_value_l |-> Junk,
   freq_control_value_r |-> Junk, bw_control_value_r |-> Junk,
   input_buffer_l |-> Junk, output_buffer_l |-> Junk,
   input_buffer_r |-> Junk, output_buffer_r |-> Junk,
   sample_rate |-> sample_rate,
   history_l |-> Junk, history_r |-> Junk]

\* returns <<filter, heap>>
reson_activate_filter(f, h, st) ==
  LET h1 == calloc(h, 2)
      h2 == IF st THEN calloc(h1, 2) ELSE h1
  IN  <<[f EXCEPT !.history_l = calloc_ptr(h, 2),
                  !.history_r = IF st THEN calloc_ptr(h1, 2) ELSE NULL],
        h2>>

reson_connect_port_to_filter(f, port, data_location) ==
  CASE port = 0 -> [f EXCEPT !.freq_control_value_l = data_location]
    [] port = 1 -> [f EXCEPT !.bw_control_value_l = data_location]
    [] port = 4 -> [f EXCEPT !.freq_control_value_r = data_location]
    [] port = 5 -> [f EXCEPT !.bw_control_value_r = data_location]
    [] port = 2 -> [f EXCEPT !.input_buffer_l = data_location]
    [] port = 3 -> [f EXCEPT !.output_buffer_l = data_location]
    [] port = 6 -> [f EXCEPT !.input_buffer_r = data_location]
    [] port = 7 -> [f EXCEPT !.output_buffer_r = data_location]
    [] OTHER -> f

\* pole_radius = 1 - M_PI * bw / sample_rate; pibw is M_PI * bw
reson_pole_radius(pibw, sample_rate) ==
  RSub(One, RDiv(pibw, Int2Rat(sample_rate)))

\* reson_cos_pole_angle with the division binding tighter than the sum:
\* (2 * pole_radius) / 1 + pow(pole_radius, 2)
reson_cos_pole_angle_unparenthesised(pole_radius, freq, sample_rate) ==
  RMul(RAdd(RDiv(RMul(Int2Rat(2), pole_radius), One), RPow(pole_radius, 2)),
       CosTurn(RDiv(freq, Int2Rat(sample_rate))))

\* cos(pole_angle): ((2 * pole_radius) / (1 + pow(pole_radius, 2)))
\*                  * cos(2 * M_PI * freq / sample_rate)
reson_cos_pole_angle(pole_radius, freq, sample_rate) ==
  RMul(RDiv(RMul(Int2Rat(2), pole_radius),
            RAdd(One, RPow(pole_radius, 2))),
       CosTurn(RDiv(freq, Int2Rat(sample_rate))))

\* gain_factor = (1 - pow(pole_radius, 2)) * sin(pole_angle)
reson_gain_factor(pole_radius, cos_pole_angle) ==
  RMul(RSub(One, RPow(pole_radius, 2)),
       RSqrt(RSub(One, RMul(cos_pole_angle, cos_pole_angle))))

\* gain_factor * *input + 2 * pole_radius * cos(pole_angle) * history[0]
\*   - pow(pole_radius, 2) * history[1]
reson_output(in, gain_factor, pole_radius, cos_pole_angle, h0, h1) ==
  RSub(RAdd(RMul(gain_factor, in),
            RMul(RMul(RMul(Int2Rat(2), pole_radius), cos_pole_angle), h0)),
       RMul(RPow(pole_radius, 2), h1))

\* one iteration of filter_channel's loop body
reson_frame(m, input, output, gain_factor, pole_radius, cos_pole_angle, history) ==
  IF Deref(m.heap, history) # "none"
  THEN [m EXCEPT !.fault = Deref(m.heap, history)]
  ELSE
  LET h == m.heap[history].data
      out == reson_output(m.mem[input], gain_factor, pole_radius,
                          cos_pole_angle, h[0], h[1])
      mem1 == [m.mem EXCEPT ![output] = out]
  IN  [m EXCEPT !.mem = mem1,
                !.heap = [m.heap EXCEPT ![history].data =
                            [h EXCEPT ![1] = h[0], ![0] = mem1[output]]],
                !.acc = m.acc \o <<MemRead(m, input), HeapRead(m, history, 0),
                                   HeapRead(m, history, 1),
                                   MemWrite(output, out),
                                   HeapRead(m, history, 0),
                                   HeapWrite(history, 1, h[0]),
                                   <<"R", "mem", 0, output, mem1[output]>>,
                                   HeapWrite(history, 0, mem1[output])>>,
                !.iters = m.iters + 1]

RECURSIVE reson_loop(_, _, _, _, _, _, _, _)
reson_loop(m, input, output, gain_factor, pole_radius, cos_pole_angle, history, sample_count) ==
  IF sample_count > 0 /\ m.fault = "none"
  THEN reson_loop(reson_frame(m, input, output, gain_factor, pole_radius,
                              cos_pole_angle, history),
                  NextPtr(input), NextPtr(output), gain_factor, pole_radius,
                  cos_pole_angle, history, sample_count - 1)
  ELSE m

reson_filter_channel(m, input, output, freq, bw, history, sample_count, sample_rate) ==
  LET pole_radius == reson_pole_radius(bw, sample_rate)
      cos_pole_angle == reson_cos_pole_angle(pole_radius, freq, sample_rate)
      gain_factor == reson_gain_factor(pole_radius, cos_pole_angle)
  IN  reson_loop(m, input, output, gain_factor, pole_radius, cos_pole_angle,
                 history, sample_count)

reson_run_filter(m, sample_count, st) ==
  LET f == m.filter
      m1 == reson_filter_channel(
              CtlRead(CtlRead(m, f.freq_control_value_l), f.bw_control_value_l),
              f.input_buffer_l, f.output_buffer_l,
              m.mem[f.freq_control_value_l], m.mem[f.bw_control_value_l],
              f.history_l, sample_count, f.sample_rate)
  IN  IF st
      THEN reson_filter_channel(
             CtlRead(CtlRead(m1, f.freq_control_value_r), f.bw_control_value_r),
             f.input_buffer_r, f.output_buffer_r,
             m1.mem[f.freq_control_value_r], m1.mem[f.bw_control_value_r],
             f.history_r, sample_count, f.sample_rate)
      ELSE m1

(***************************************************************************)
(* The descriptors: which callbacks a host reaches through                 *)
(* mono_descriptor / stereo_descriptor of each library.                    *)
(***************************************************************************)
PortCount(k, st) ==
  IF k = "iir" THEN (IF st THEN 6 ELSE 3) ELSE (IF st THEN 8 ELSE 4)
Ports(k, st) == 0..(PortCount(k, st) - 1)

\* the #define'd port numbers: what each port is for
PortRole(k, port) ==
  IF k = "iir"
  THEN CASE port = 0 -> "ctl1_l" [] port = 1 -> "in_l" [] port = 2 -> "out_l"
         [] port = 3 -> "ctl1_r" [] port = 4 -> "in_r" [] port = 5 -> "out_r"
  ELSE CASE port = 0 -> "ctl1_l" [] port = 1 -> "ctl2_l" [] port = 2 -> "in_l"
         [] port = 3 -> "out_l" [] port = 4 -> "ctl1_r" [] port = 5 -> "ctl2_r"
         [] port = 6 -> "in_r" [] port = 7 -> "out_r"

\* the struct field that holds each port's data_location
PortField(k, port) ==
  LET role == PortRole(k, port)
      side == IF role \in {"ctl1_l", "ctl2_l", "in_l", "out_l"} THEN "l" ELSE "r"
      ctl1 == CASE k = "comb" -> "delay_control_value_"
                [] k = "fir" -> "freq_control_value_"
                [] k = "iir" -> "coef_control_value_"
                [] k = "reson" -> "freq_control_value_"
      ctl2 == CASE k = "comb" -> "sharp_control_value_"
                [] k = "fir" -> "wet_control_value_"
                [] k = "reson" -> "bw_control_value_"
  IN  CASE role \in {"ctl1_l", "ctl1_r"} -> ctl1 \o side
        [] role \in {"ctl2_l", "ctl2_r"} -> ctl2 \o side
        [] role \in {"in_l", "in_r"} -> "input_buffer_" \o side
        [] role \in {"out_l", "out_r"} -> "output_buffer_" \o side

instantiate(k, sample_rate) ==
  CASE k = "comb" -> comb_instantiate_filter(sample_rate)
    [] k = "fir" -> fir_instantiate_filter(sample_rate)
    [] k = "iir" -> iir_instantiate_filter(sample_rate)
    [] k = "reson" -> reson_instantiate_filter(sample_rate)

connect_port(k, f, port, data_location) ==
  CASE k = "comb" -> comb_connect_port_to_filter(f, port, data_location)
    [] k = "fir" -> fir_connect_port_to_filter(f, port, data_location)
    [] k = "iir" -> iir_connect_port_to_filter(f, port, data_location)
    [] k = "reson" -> reson_connect_port_to_filter(f, port, data_location)

\* activate_mono_filter / activate_stereo_filter; returns <<filter, heap>>
activate(k, f, h, st) ==
  CASE k = "comb" -> comb_activate_filter(f, h, st)
    [] k = "fir" -> fir_activate_filter(f, h, st)
    [] k = "iir" -> <<iir_activate_filter(f), h>>
    [] k = "reson" -> reson_activate_filter(f, h, st)

\* run_mono_filter / run_stereo_filter
run(k, m, sample_count, st) ==
  CASE k = "comb" -> IF st THEN comb_run_stereo_filter(m, sample_count)
                     ELSE comb_run_mono_filter(m, sample_count)
    [] k = "fir" -> fir_run_filter(m, sample_count, st)
    [] k = "iir" -> iir_run_filter(m, sample_count, st)
    [] k = "reson" -> reson_run_filter(m, sample_count, st)

\* descriptor->deactivate; NULL in iir.c, where the host has nothing to
\* call; returns <<heap, fault>>
deactivate(k, f, h) ==
  IF k = "iir" THEN <<h, "none">> ELSE history_deactivate_filter(f, h)

(***************************************************************************)
(* The host: the values it instantiates with, writes to the control cells  *)
(* and feeds as audio.                                                     *)
(***************************************************************************)
\* instantiate takes any unsigned long: 1 is the rate at which fir.c's
\* history_length, (unsigned long)((1 / (2 * MIN_FREQ)) * sample_rate), is 0
SampleRates(k) == IF k = "fir" THEN {1, 6} ELSE {4}

Samples == {Zero, One}

\* <<first control, second control>> of a channel:
\* comb <<delay, sharpness>>, fir <<frequency, wet>>, iir <<coefficient, ->>,
\* reson <<frequency, M_PI * bandwidth>>
ParamSeq(k) ==
  CASE k = "comb" -> << <<One, Half>>, <<(<<5, 2>>), One>>,
                        <<Int2Rat(MAX_DELAY), One>> >>
    [] k = "fir" -> << <<Int2Rat(2), One>>, <<One, One>>, <<Int2Rat(2), Zero>> >>
    [] k = "iir" -> << <<Half, Zero>>, <<Zero, Zero>>, <<RNeg(Half), Zero>> >>
    [] k = "reson" -> << <<One, Int2Rat(2)>>, <<Zero, Int2Rat(2)>>,
                         <<One, Int2Rat(4)>> >>

\* the right channel's input of a stereo call with left input l
StereoRight(l) == {[i \in DOMAIN l |-> RSub(One, l[i])]}

\* mem with the sequence s stored from address a on
WriteBuf(memv, a, s) ==
  [x \in DOMAIN memv |->
     IF x >= a /\ x < a + Len(s) THEN s[x - a + 1] ELSE memv[x]]
\* the n samples stored from address a on
ReadBuf(memv, a, n) == [i \in 1..n |-> memv[a + i - 1]]

\* host memory once the host has set the controls and filled the inputs
HostWrite(memv, st, pl, pr, il, ir) ==
  LET a == WriteBuf(memv, HostAddr("ctl1_l"), <<pl[1], pl[2]>>)
      b == WriteBuf(a, HostAddr("in_l"), il)
      c == WriteBuf(b, HostAddr("ctl1_r"), <<pr[1], pr[2]>>)
      d == WriteBuf(c, HostAddr("in_r"), ir)
  IN  IF st THEN d ELSE b

\* one run() call from struct f, heap h and host memory memv
\* conv is what this build's float to unsigned long conversion yields where
\* C leaves it undefined
RunCallConv(k, st, f, h, memv, n, conv) ==
  run(k, [filter |-> f, heap |-> h, mem |-> memv, acc |-> <<>>, iters |-> 0,
          fault |-> "none", conv |-> conv],
      n, st)
RunCall(k, st, f, h, memv, n) == RunCallConv(k, st, f, h, memv, n, 0)

\* the state an instance carries from one run() to the next
Dyn(k, f, h) ==
  IF k = "iir"
  THEN [hl |-> <<>>, hr |-> <<>>, pos |-> 0,
        pl |-> f.previous_sample_l, pr |-> f.previous_sample_r]
  ELSE [hl |-> IF f.history_l = NULL THEN <<>> ELSE h[f.history_l].data,
        hr |-> IF f.history_r = NULL THEN <<>> ELSE h[f.history_r].data,
        pos |-> IF k = "reson" THEN 0 ELSE f.history_position,
        pl |-> Zero, pr |-> Zero]
NoDyn == [hl |-> <<>>, hr |-> <<>>, pos |-> Junk, pl |-> Zero, pr |-> Zero]

\* no second instance
NoPeer == [filter |-> <<>>, life |-> "absent", stray |-> FALSE]

AllBound == \A p \in Ports(kernel, stereo) : filter[PortField(kernel, p)] # Junk
Cost(n) == IF n = 0 THEN 1 ELSE n

(***************************************************************************)
(* Actions: the host's calls through the descriptor.                       *)
(***************************************************************************)
Init ==
  /\ kernel \in Kernels
  /\ stereo \in BOOLEAN
  /\ \E sr \in SampleRates(kernel) : filter = instantiate(kernel, sr)
  /\ heap = <<>>
  /\ mem = [a \in Addrs |-> Zero]
  /\ life = "created"
  /\ fault = "none"
  /\ log = <<>>
  /\ fresh = NoDyn
  /\ acts = 0
  /\ bind = [port |-> Junk, loc |-> Junk, before |-> filter]
  /\ budget = Budget
  /\ peer = NoPeer

\* connect_port(instance, port, host location of that port)
Connect ==
  /\ life = "created" /\ fault = "none"
  /\ \E p \in Ports(kernel, stereo) :
       /\ filter[PortField(kernel, p)] = Junk
       /\ \A q \in Ports(kernel, stereo) :
            q < p => filter[PortField(kernel, q)] # Junk
       /\ filter' = connect_port(kernel, filter, p,
                                 HostAddr(PortRole(kernel, p)))
       /\ bind' = [port |-> p, loc |-> HostAddr(PortRole(kernel, p)),
                   before |-> filter]
  /\ UNCHANGED <<peer, kernel, stereo, heap, mem, life, fault, log, fresh, acts,
                 budget>>

\* activate(instance), first or after a deactivate
Activate ==
  /\ life \in {"created", "inactive"} /\ fault = "none"
  /\ AllBound
  /\ acts > 0 => budget > 0
  /\ LET r == activate(kernel, filter, heap, stereo)
     IN  /\ filter' = r[1]
         /\ heap' = r[2]
         /\ fresh' = IF acts = 0 THEN Dyn(kernel, r[1], r[2]) ELSE fresh
  /\ life' = "active"
  /\ acts' = acts + 1
  /\ budget' = IF acts > 0 THEN budget - 1 ELSE budget
  /\ UNCHANGED <<peer, kernel, stereo, mem, fault, log, bind>>

\* run(instance, n) after the host has set the controls and the inputs
\* the right channel of a stereo call gets the next entry of params
RunWith(params, convs) ==
  /\ life = "active" /\ fault = "none"
  /\ \E n \in 0..MaxFrames, i \in DOMAIN params, conv \in convs :
       /\ Cost(n) <= budget
       /\ budget' = budget - Cost(n)
       /\ \E il \in [1..n -> Samples] :
            \E ir \in (IF stereo THEN StereoRight(il) ELSE {il}) :
              LET memin == HostWrite(mem, stereo, params[i],
                                     params[(i % Len(params)) + 1], il, ir)
                  m == RunCallConv(kernel, stereo, filter, heap, memin, n,
                                   conv)
              IN  /\ filter' = m.filter
                  /\ heap' = m.heap
                  /\ mem' = m.mem
                  /\ log' = Append(log, [act |-> acts,
                                         filter |-> filter, heap |-> heap,
                                         memin |-> memin, n |-> n,
                                         memout |-> m.mem, acc |-> m.acc,
                                         iters |-> m.iters])
                  /\ fault' = m.fault
  /\ UNCHANGED <<peer, kernel, stereo, life, fresh, acts, bind>>

Run == RunWith(ParamSeq(kernel), {0})

\* does deactivate_filter on the struct f of an instance in lifecycle state
\* l free a block that instance does not hold any more?  Its stale pointer
\* then names a block the allocator has handed out again
StrayFree(k, l, f, h) ==
  /\ k # "iir" /\ l # "active"
  /\ \E p \in {f.history_l, f.history_r} :
       p \notin {Junk, NULL} /\ h[p].live

\* deactivate(instance), whenever the host cares to call it
Deactivate ==
  /\ life \in {"created", "active", "inactive"} /\ fault = "none"
  /\ LET r == deactivate(kernel, filter, heap)
     IN  /\ heap' = r[1]
         /\ fault' = r[2]
  /\ life' = IF life = "active" THEN "inactive" ELSE life
  /\ peer' = [peer EXCEPT !.stray = @ \/ StrayFree(kernel, life, filter, heap)]
  /\ UNCHANGED <<kernel, stereo, filter, mem, log, fresh, acts, bind,
                 budget>>

\* cleanup(instance): free(instance)
Cleanup ==
  /\ life \in {"created", "inactive"} /\ fault = "none"
  /\ life' = "destroyed"
  /\ UNCHANGED <<peer, kernel, stereo, filter, heap, mem, fault, log, fresh, acts,
                 bind, budget>>

Next == Connect \/ Activate \/ Run \/ Deactivate \/ Cleanup

Spec == Init /\ [][Next]_vars

(***************************************************************************)
(* A host that sets the controls to the edges of the documented ranges and *)
(* beyond them; nothing in the library stops it.                           *)
(***************************************************************************)
\* comb: a delay that truncates to 0 and one above MAX_DELAY;
\* fir: frequency 0, a negative one, and one below MIN_FREQ;
\* iir: |coefficient| above 1; reson: bandwidths beyond sample_rate / M_PI
EdgeParamSeq(k) ==
  CASE k = "comb" -> << <<One, Half>>, <<Half, Half>>,
                        <<Int2Rat(2 * MAX_DELAY), One>> >>
    [] k = "fir" -> << <<Zero, Zero>>, <<Int2Rat(-1), One>>,
                       <<(<<1, 4>>), Zero>> >>
    [] k = "iir" -> << <<Half, Zero>>, <<Int2Rat(2), Zero>> >>
    [] k = "reson" -> << <<One, Int2Rat(2)>>, <<Zero, Int2Rat(6)>>,
                         <<One, Int2Rat(8)>> >>

\* what an undefined conversion to unsigned long may yield
ConvOutcomes == {0, 5}

RunEdge ==
  RunWith(EdgeParamSeq(kernel), IF kernel = "fir" THEN ConvOutcomes ELSE {0})

NextEdge == Connect \/ Activate \/ RunEdge \/ Deactivate \/ Cleanup

\* the mono descriptor of each library
InitEdge == Init /\ stereo = FALSE

SpecEdge == InitEdge /\ [][NextEdge]_vars

(***************************************************************************)
(* A process that runs out of memory: malloc and calloc return NULL.       *)
(***************************************************************************)
\* activate_filter when its calloc calls return NULL: the struct takes the
\* pointers as they come and the heap gets no block; returns <<filter, heap>>
activate_no_memory(k, f, h, st) ==
  <<[activate(k, f, h, st)[1] EXCEPT !.history_l = NULL, !.history_r = NULL],
    h>>

\* instantiate_filter when malloc returns NULL: comb.c, fir.c and reson.c
\* store sample_rate through the pointer they got; iir.c returns it untouched
instantiate_no_memory(k) == IF k = "iir" THEN "none" ELSE "null_dereference"

InitNoMem ==
  /\ kernel \in Kernels
  /\ stereo \in BOOLEAN
  /\ \E sr \in SampleRates(kernel) : filter = instantiate(kernel, sr)
  /\ heap = <<>>
  /\ mem = [a \in Addrs |-> Zero]
  /\ life = "created"
  /\ fault \in {"none", instantiate_no_memory(kernel)}
  /\ log = <<>>
  /\ fresh = NoDyn
  /\ acts = 0
  /\ bind = [port |-> Junk, loc |-> Junk, before |-> filter]
  /\ budget = Budget
  /\ peer = NoPeer

\* activate(instance) with no memory left; iir.c allocates nothing there
ActivateNoMem ==
  /\ kernel # "iir"
  /\ life \in {"created", "inactive"} /\ fault = "none"
  /\ AllBound
  /\ acts > 0 => budget > 0
  /\ LET r == activate_no_memory(kernel, filter, heap, stereo)
     IN  /\ filter' = r[1]
         /\ heap' = r[2]
         /\ fresh' = IF acts = 0 THEN Dyn(kernel, r[1], r[2]) ELSE fresh
  /\ life' = "active"
  /\ acts' = acts + 1
  /\ budget' = IF acts > 0 THEN budget - 1 ELSE budget
  /\ UNCHANGED <<peer, kernel, stereo, mem, fault, log, bind>>

NextNoMem ==
  Connect \/ Activate \/ ActivateNoMem \/ Run \/ Deactivate \/ Cleanup

SpecNoMem == InitNoMem /\ [][NextNoMem]_vars

(***************************************************************************)
(* Two instances of one descriptor in one process.  They have a struct     *)
(* each and share the allocator; the host binds both to the same           *)
(* locations and calls them in any order.                                  *)
(***************************************************************************)
\* the struct f after connect_port for every port in ports
RECURSIVE ConnectAll(_, _, _)
ConnectAll(k, f, ports) ==
  IF ports = {} THEN f
  ELSE LET p == CHOOSE q \in ports : TRUE
       IN  ConnectAll(k, connect_port(k, f, p, HostAddr(PortRole(k, p))),
                      ports \ {p})

InitTwo ==
  /\ kernel \in Kernels
  /\ stereo \in BOOLEAN
  /\ \E sr \in SampleRates(kernel) :
       /\ filter = instantiate(kernel, sr)
       /\ peer = [filter |-> ConnectAll(kernel, instantiate(kernel, sr),
                                        Ports(kernel, stereo)),
                  life |-> "created", stray |-> FALSE]
  /\ heap = <<>>
  /\ mem = [a \in Addrs |-> Zero]
  /\ life = "created"
  /\ fault = "none"
  /\ log = <<>>
  /\ fresh = NoDyn
  /\ acts = 0
  /\ bind = [port |-> Junk, loc |-> Junk, before |-> filter]
  /\ budget = Budget

\* activate(peer)
PeerActivate ==
  /\ peer.life \in {"created", "inactive"} /\ fault = "none"
  /\ budget > 0
  /\ LET r == activate(kernel, peer.filter, heap, stereo)
     IN  /\ peer' = [peer EXCEPT !.filter = r[1], !.life = "active"]
         /\ heap' = r[2]
  /\ budget' = budget - 1
  /\ UNCHANGED <<kernel, stereo, filter, mem, life, fault, log, fresh, acts,
                 bind>>

\* run(peer, 1) on an input sample of 1
PeerRun ==
  /\ peer.life = "active" /\ fault = "none"
  /\ budget > 0
  /\ \E m \in {RunCall(kernel, stereo, peer.filter, heap,
                        HostWrite(mem, stereo, ParamSeq(kernel)[1],
                                  ParamSeq(kernel)[2], <<One>>, <<Zero>>),
                        1)} :
       /\ peer' = [peer EXCEPT !.filter = m.filter]
       /\ heap' = m.heap
       /\ mem' = m.mem
       /\ fault' = m.fault
  /\ budget' = budget - 1
  /\ UNCHANGED <<kernel, stereo, filter, life, log, fresh, acts, bind>>

\* deactivate(peer), whenever the host cares to call it
PeerDeactivate ==
  /\ peer.life \in {"created", "active", "inactive"} /\ fault = "none"
  /\ budget > 0
  /\ LET r == deactivate(kernel, peer.filter, heap)
     IN  /\ heap' = r[1]
         /\ fault' = r[2]
  /\ peer' = [peer EXCEPT
                !.life = IF @ = "active" THEN "inactive" ELSE @,
                !.stray = @ \/ StrayFree(kernel, peer.life, peer.filter, heap)]
  /\ budget' = budget - 1
  /\ UNCHANGED <<kernel, stereo, filter, mem, life, log, fresh, acts, bind>>

NextTwo ==
  \/ Connect \/ Activate \/ Run \/ Deactivate \/ Cleanup
  \/ PeerActivate \/ PeerRun \/ PeerDeactivate

SpecTwo == InitTwo /\ [][NextTwo]_vars

(***************************************************************************)
(* A host that keeps to rounds of activate, run()s, deactivate and then    *)
(* cleanup, but may call activate on an instance that is active already.   *)
(***************************************************************************)
\* deactivate(instance) on an active instance
OwnDeactivate == life = "active" /\ Deactivate

\* activate(instance) on an active instance, no deactivate in between
Reactivate ==
  /\ life = "active" /\ fault = "none"
  /\ budget > 0
  /\ LET r == activate(kernel, filter, heap, stereo)
     IN  /\ filter' = r[1]
         /\ heap' = r[2]
  /\ acts' = acts + 1
  /\ budget' = budget - 1
  /\ UNCHANGED <<peer, kernel, stereo, mem, life, fault, log, fresh, bind>>

NextOwn ==
  Connect \/ Activate \/ Reactivate \/ Run \/ OwnDeactivate \/ Cleanup

SpecOwn == Init /\ [][NextOwn]_vars

(***************************************************************************)
(* Hosts that lay their buffers out differently: a mono host with buffers  *)
(* of twice MaxFrames frames, and run() calls of up to BlockFrames frames. *)
(***************************************************************************)
\* where a host with the given buffer layout has the buffer of a port role:
\* "wide" is a mono host whose output buffer starts where a stereo host has
\* its right input, "inplace" a host whose output buffers are its input
\* buffers
LayoutAddr(layout, role) ==
  HostAddr(CASE layout = "wide" /\ role = "out_l" -> "in_r"
             [] layout = "inplace" /\ role = "out_l" -> "in_l"
             [] layout = "inplace" /\ role = "out_r" -> "in_r"
             [] OTHER -> role)

\* connect_port(instance, port, the layout's location of the port), ports
\* in order
ConnectAt(layout) ==
  /\ life = "created" /\ fault = "none"
  /\ \E p \in Ports(kernel, stereo) :
       /\ filter[PortField(kernel, p)] = Junk
       /\ \A q \in Ports(kernel, stereo) :
            q < p => filter[PortField(kernel, q)] # Junk
       /\ filter' = connect_port(kernel, filter, p,
                                 LayoutAddr(layout, PortRole(kernel, p)))
       /\ bind' = [port |-> p, loc |-> LayoutAddr(layout, PortRole(kernel, p)),
                   before |-> filter]
  /\ UNCHANGED <<peer, kernel, stereo, heap, mem, life, fault, log, fresh, acts,
                 budget>>

BlockFrames == MaxFrames + 2

ConnectWide == ConnectAt("wide")

\* run(instance, n) with n up to frames, the controls one of params
RunBlocks(params, frames) ==
  /\ life = "active" /\ fault = "none"
  /\ \E n \in 0..frames, i \in DOMAIN params :
       /\ Cost(n) <= budget
       /\ budget' = budget - Cost(n)
       /\ \E il \in [1..n -> Samples] :
            \E memin \in {HostWrite(mem, stereo, params[i],
                                    params[(i % Len(params)) + 1], il,
                                    [j \in 1..n |-> RSub(One, il[j])])} :
              \E m \in {RunCall(kernel, stereo, filter, heap, memin, n)} :
                /\ filter' = m.filter
                /\ heap' = m.heap
                /\ mem' = m.mem
                /\ log' = Append(log, [act |-> acts,
                                       filter |-> filter, heap |-> heap,
                                       memin |-> memin, n |-> n,
                                       memout |-> m.mem, acc |-> m.acc,
                                       iters |-> m.iters])
                /\ fault' = m.fault
  /\ UNCHANGED <<peer, kernel, stereo, life, fresh, acts, bind>>

(***************************************************************************)
(* A host that processes in place: each channel's output port is bound to  *)
(* the buffer of that channel's input port.                                *)
(***************************************************************************)
ConnectInPlace == ConnectAt("inplace")

NextInPlace == ConnectInPlace \/ Activate \/ Run \/ Deactivate \/ Cleanup

SpecInPlace == Init /\ [][NextInPlace]_vars

(***************************************************************************)
(* A host that also binds ports to other locations, binds them again, and  *)
(* passes port numbers the library does not know.                          *)
(***************************************************************************)
\* the port numbers connect_port_to_filter's switch has a case for
KnownPorts(k) == Ports(k, TRUE)
BindPorts(k) == 0..(PortCount(k, TRUE) + 1)
BindLocs == {HostAddr("in_l"), HostAddr("out_l")}

\* connect_port(instance, any port number, any location)
Rebind ==
  /\ life = "created" /\ fault = "none"
  /\ budget > 0
  /\ \E p \in BindPorts(kernel), loc \in BindLocs :
       /\ filter' = connect_port(kernel, filter, p, loc)
       /\ bind' = [port |-> p, loc |-> loc, before |-> filter]
  /\ budget' = budget - 1
  /\ UNCHANGED <<peer, kernel, stereo, heap, mem, life, fault, log, fresh, acts>>

NextBind == Connect \/ Rebind

SpecBind == Init /\ [][NextBind]_vars

(***************************************************************************)
(* What the log says about the calls of the current activation.            *)
(***************************************************************************)
InAct(e) == e.act = acts
\* the run() calls since the last activate()
Calls == SelectSeq(log, InAct)
Last == Calls[Len(Calls)]
\* TRUE right after a run() call returned
JustRan == life = "active" /\ fault = "none" /\ Calls # <<>>

\* the four control cells, the inputs and the outputs of a logged call
Controls(e) == ReadBuf(e.memin, HostAddr("ctl1_l"), 4)
InL(e) == ReadBuf(e.memin, e.filter.input_buffer_l, e.n)
InR(e) == ReadBuf(e.memin, e.filter.input_buffer_r, e.n)
OutL(e) == ReadBuf(e.memout, e.filter.output_buffer_l, e.n)
OutR(e) == ReadBuf(e.memout, e.filter.output_buffer_r, e.n)

\* the two calls a and b made as one call of a.n + b.n frames from a's state
AsOneCall(a, b) ==
  LET m1 == WriteBuf(a.memin, a.filter.input_buffer_l, InL(a) \o InL(b))
      m2 == IF stereo
            THEN WriteBuf(m1, a.filter.input_buffer_r, InR(a) \o InR(b))
            ELSE m1
  IN  RunCall(kernel, stereo, a.filter, a.heap, m2, a.n + b.n)

\* C1, for the last two calls of an activation
BlockSplitHolds ==
  LET a == Calls[Len(Calls) - 1]
      b == Last
      one == AsOneCall(a, b)
  IN  /\ ReadBuf(one.mem, a.filter.output_buffer_l, a.n + b.n)
           = OutL(a) \o OutL(b)
      /\ stereo => ReadBuf(one.mem, a.filter.output_buffer_r, a.n + b.n)
                     = OutR(a) \o OutR(b)
      /\ Dyn(kernel, one.filter, one.heap) = Dyn(kernel, filter, heap)

(***************************************************************************)
(* C1: with the controls held constant, two consecutive run() calls of N1  *)
(* and N2 frames give the outputs and the final internal state of one call *)
(* of N1 + N2 frames on the concatenated input, for every kernel.          *)
(* comb.c breaks it: see C2.                                               *)
(***************************************************************************)
C1_BlockSplit ==
  (/\ JustRan
   /\ Len(Calls) >= 2
   /\ Controls(Calls[Len(Calls) - 1]) = Controls(Last)
   /\ Calls[Len(Calls) - 1].n + Last.n <= MaxFrames)
  => BlockSplitHolds

\* the kernels whose run() stores what it advances do carry their state
C1_BlockSplitOthers == kernel # "comb" => C1_BlockSplit

(***************************************************************************)
(* C2: a comb run() of N frames that started with cursor p leaves          *)
(* (p + N) mod 100 in the instance's history_position.                     *)
(* filter_channel advances a by-value copy, so the stored cursor stays 0.  *)
(***************************************************************************)
C2_CombCursorAdvance ==
  (JustRan /\ kernel = "comb")
  => filter.history_position
       = (Last.filter.history_position + Last.n) % MAX_DELAY

\* what comb.c does instead: the stored cursor never moves
C2_CombCursorStuck ==
  (kernel = "comb" /\ life = "active") => filter.history_position = 0

(***************************************************************************)
(* C3: deactivate followed by activate puts the instance in the state of   *)
(* its first activation (history all 0, cursor 0, previous output 0), and  *)
(* the same calls then reproduce the first activation's outputs.           *)
(***************************************************************************)
InFirstAct(e) == e.act = 1
FirstCalls == SelectSeq(log, InFirstAct)

\* the first k calls of this activation repeat those of the first one
SamePrefix(k) ==
  /\ k <= Len(Calls) /\ k <= Len(FirstCalls)
  /\ \A j \in 1..k :
       /\ Calls[j].n = FirstCalls[j].n
       /\ Controls(Calls[j]) = Controls(FirstCalls[j])
       /\ InL(Calls[j]) = InL(FirstCalls[j])
       /\ stereo => InR(Calls[j]) = InR(FirstCalls[j])

AllZero(d) ==
  /\ \A i \in DOMAIN d.hl : d.hl[i] = Zero
  /\ \A i \in DOMAIN d.hr : d.hr[i] = Zero
  /\ d.pos = 0 /\ d.pl = Zero /\ d.pr = Zero

C3_IdempotentReset ==
  (life = "active" /\ fault = "none")
  => /\ AllZero(fresh)
     /\ Calls = <<>> => Dyn(kernel, filter, heap) = fresh
     /\ Calls # <<>> => Dyn(kernel, Calls[1].filter, Calls[1].heap) = fresh
     /\ \A k \in 1..Len(Calls) :
          SamePrefix(k) => /\ OutL(Calls[k]) = OutL(FirstCalls[k])
                           /\ stereo => OutR(Calls[k]) = OutR(FirstCalls[k])

\* a second activation that repeats a first call whose output was not silence
C3_Witness ==
  /\ life = "active" /\ acts = 2 /\ Len(Calls) = 1 /\ SamePrefix(1)
  /\ Last.n >= 1
  /\ \E i \in 1..Last.n : OutL(Last)[i] # Zero

(***************************************************************************)
(* C4: run() with sample_count = 0 leaves the internal state unchanged and *)
(* touches no audio input, audio output or history element.                *)
(***************************************************************************)
C4_ZeroFrames ==
  (JustRan /\ Last.n = 0)
  => /\ filter = Last.filter
     /\ heap = Last.heap
     /\ mem = Last.memin
     /\ \A i \in DOMAIN Last.acc :
          /\ Last.acc[i][1] = "R"
          /\ Last.acc[i][2] = "mem"
          /\ Last.acc[i][4] \notin AudioAddrs

\* an empty call on an instance whose state an earlier call has changed
C4_Witness ==
  /\ JustRan /\ Last.n = 0
  /\ Dyn(kernel, filter, heap) # fresh

(***************************************************************************)
(* C5: deactivate called twice in a row, or before any activate, is a      *)
(* no-op and not an error: it releases no buffer twice and none that was   *)
(* never allocated.                                                        *)
(* comb.c, fir.c and reson.c free history_l and history_r unconditionally  *)
(* and leave the pointers in place.                                        *)
(***************************************************************************)
C5_DeactivateIdempotent == fault \notin {"free_uninitialized", "double_free"}

(***************************************************************************)
(* C7: run() with sample_count = N executes the loop body exactly N times  *)
(* per channel loop; on return output samples 0..N-1 of every channel have *)
(* been written and no input or output sample of index >= N was touched.   *)
(* fir.c at a sample rate below 2 has a history_length of 0 and divides by *)
(* it in the first iteration.                                              *)
(***************************************************************************)
\* comb.c and reson.c run one loop per channel, fir.c and iir.c one loop
Loops == IF stereo /\ kernel \in {"comb", "reson"} THEN 2 ELSE 1
Span(base, n) == {base + j : j \in 0..(n - 1)}
OutAddrs(e) ==
  Span(e.filter.output_buffer_l, e.n)
    \cup (IF stereo THEN Span(e.filter.output_buffer_r, e.n) ELSE {})
InAddrs(e) ==
  Span(e.filter.input_buffer_l, e.n)
    \cup (IF stereo THEN Span(e.filter.input_buffer_r, e.n) ELSE {})
Touched(e, op) ==
  {e.acc[i][4] : i \in {j \in DOMAIN e.acc :
                          e.acc[j][1] = op /\ e.acc[j][2] = "mem"}}

Completed(e) ==
  /\ e.iters = e.n * Loops
  /\ Touched(e, "W") = OutAddrs(e)
  /\ (Touched(e, "R") \cap AudioAddrs) \subseteq (InAddrs(e) \cup OutAddrs(e))
  /\ InAddrs(e) \subseteq Touched(e, "R")

C7_RunsToCompletion ==
  (life = "active" /\ Calls # <<>>) => (fault = "none" /\ Completed(Last))

\* every call that got past its first frame did complete
C7_CompletesUnlessFaulted == JustRan => Completed(Last)

(***************************************************************************)
(* C6: connect_port with a port number the library has no case for changes *)
(* nothing; with a known port number it changes that port's binding and    *)
(* nothing else.                                                           *)
(***************************************************************************)
C6_BindFrame ==
  bind.port # Junk
  => IF bind.port \in KnownPorts(kernel)
     THEN filter = [bind.before EXCEPT ![PortField(kernel, bind.port)] = bind.loc]
     ELSE filter = bind.before

\* an unknown port number bound on an instance that has bindings already
C6_Witness ==
  /\ bind.port # Junk /\ bind.port \notin KnownPorts(kernel)
  /\ \E p \in KnownPorts(kernel) : filter[PortField(kernel, p)] # Junk

\* a known port bound again, to another location
C6_WitnessKnown ==
  /\ bind.port \in KnownPorts(kernel)
  /\ bind.before[PortField(kernel, bind.port)] \notin {Junk, bind.loc}

(***************************************************************************)
(* C8: comb with delay = 1, sharpness = 0.5 and constant input 1.0 since   *)
(* activation, over one or many run() calls: every output sample is closer *)
(* to 1.0 than the one before it.                                          *)
(* Every call restarts at cursor 0 (C2) and history[0] is rewritten only   *)
(* by the 100th frame of a call, so each call starts over at 1/2.          *)
(***************************************************************************)
RECURSIVE OutSeqL(_)
OutSeqL(cs) == IF cs = <<>> THEN <<>> ELSE OutL(Head(cs)) \o OutSeqL(Tail(cs))

ConvergenceInput(e) ==
  /\ e.memin[e.filter.delay_control_value_l] = One
  /\ e.memin[e.filter.sharp_control_value_l] = Half
  /\ \A i \in 1..e.n : InL(e)[i] = One

Closer(s) ==
  \A k \in 1..(Len(s) - 1) :
    RLess(RAbs(RSub(One, s[k + 1])), RAbs(RSub(One, s[k])))

C8_CombConvergence ==
  (kernel = "comb" /\ JustRan /\ \A k \in DOMAIN Calls : ConvergenceInput(Calls[k]))
  => Closer(OutSeqL(Calls))

\* within one call the outputs do approach 1.0
C8_CombConvergenceOneCall ==
  (kernel = "comb" /\ JustRan /\ ConvergenceInput(Last)) => Closer(OutL(Last))

(***************************************************************************)
(* C9: comb with sharpness = 1.0: every output sample is the history value *)
(* read at the cursor, whatever the input sample is.                       *)
(***************************************************************************)
\* the sharpness a logged call used for the channel whose history is block b
SharpOf(e, b) ==
  IF b = e.filter.history_l THEN e.memin[e.filter.sharp_control_value_l]
  ELSE e.memin[e.filter.sharp_control_value_r]

\* the left input of a logged call replaced by its complement
FlipInL(e) ==
  WriteBuf(e.memin, e.filter.input_buffer_l,
           [i \in 1..e.n |-> RSub(One, InL(e)[i])])

C9_CombPureFeedback ==
  (kernel = "comb" /\ JustRan)
  => /\ \A i \in DOMAIN Last.acc :
          (/\ Last.acc[i][1] = "R" /\ Last.acc[i][2] = "heap"
           /\ SharpOf(Last, Last.acc[i][3]) = One)
          => /\ Last.acc[i + 1][1] = "W" /\ Last.acc[i + 1][2] = "mem"
             /\ Last.acc[i + 1][5] = Last.acc[i][5]
     /\ Last.memin[Last.filter.sharp_control_value_l] = One
          => OutL(Last) = ReadBuf(RunCall(kernel, stereo, Last.filter,
                                          Last.heap, FlipInL(Last),
                                          Last.n).mem,
                                  Last.filter.output_buffer_l, Last.n)

\* a sharpness-1 call that outputs an earlier call's feedback, not its input
C9_Witness ==
  /\ kernel = "comb" /\ JustRan
  /\ Last.memin[Last.filter.sharp_control_value_l] = One
  /\ \E i \in 1..Last.n : OutL(Last)[i] \notin {Zero, InL(Last)[i]}

(***************************************************************************)
(* C10: iir with coef = 0: every output sample equals the input sample,    *)
(* for every frame count, input and previous output.                       *)
(***************************************************************************)
C10_IirIdentity ==
  (kernel = "iir" /\ JustRan)
  => /\ Last.memin[Last.filter.coef_control_value_l] = Zero
          => OutL(Last) = InL(Last)
     /\ (stereo /\ Last.memin[Last.filter.coef_control_value_r] = Zero)
          => OutR(Last) = InR(Last)

\* a coef-0 call made with a previous output that differs from the input
C10_Witness ==
  /\ kernel = "iir" /\ JustRan /\ Last.n >= 1
  /\ Last.memin[Last.filter.coef_control_value_l] = Zero
  /\ Last.filter.previous_sample_l \notin {Zero, InL(Last)[1]}


(***************************************************************************)
(* C11: iir with a coefficient c in [0, 1) held since activation and a     *)
(* unit impulse followed by zeros as input: output sample i (from 0) is    *)
(* (1 - c) * c^i, however the samples are split over run() calls; for      *)
(* c = 1/2 the first four are 1/2, 1/4, 1/8, 1/16.                         *)
(***************************************************************************)
\* an iir instance and a host with enough calls for four frames
InitImpulse ==
  /\ kernel = "iir"
  /\ stereo \in BOOLEAN
  /\ \E sr \in SampleRates(kernel) : filter = instantiate(kernel, sr)
  /\ heap = <<>>
  /\ mem = [a \in Addrs |-> Zero]
  /\ life = "created"
  /\ fault = "none"
  /\ log = <<>>
  /\ fresh = NoDyn
  /\ acts = 0
  /\ bind = [port |-> Junk, loc |-> Junk, before |-> filter]
  /\ budget = ImpulseFrames
  /\ peer = NoPeer

SpecImpulse == InitImpulse /\ [][Next]_vars

RECURSIVE InSeqL(_)
InSeqL(cs) == IF cs = <<>> THEN <<>> ELSE InL(Head(cs)) \o InSeqL(Tail(cs))

Impulse(s) == \A i \in DOMAIN s : s[i] = IF i = 1 THEN One ELSE Zero

\* every call of this activation used the coefficient c on the left channel
CoefHeld(c) ==
  \A k \in DOMAIN Calls :
    Calls[k].memin[Calls[k].filter.coef_control_value_l] = c

C12_FirDryIdentity ==
  (kernel = "fir" /\ JustRan)
  => /\ Last.memin[Last.filter.wet_control_value_l] = Zero
          => OutL(Last) = InL(Last)
     /\ (stereo /\ Last.memin[Last.filter.wet_control_value_r] = Zero)
          => OutR(Last) = InR(Last)

\* a wet-0 call that read a history sample of 1 in a frame whose input is 0
C12_Witness ==
  /\ kernel = "fir" /\ JustRan
  /\ Last.memin[Last.filter.wet_control_value_l] = Zero
  /\ \E i \in DOMAIN Last.acc :
       /\ i > 2
       /\ Last.acc[i][1] = "R" /\ Last.acc[i][2] = "heap"
       /\ Last.acc[i][5] = One
       /\ Last.acc[i - 2][2] = "mem" /\ Last.acc[i - 2][5] = Zero

(***************************************************************************)
(* C13: reson with a bandwidth large enough that the pole radius           *)
(* 1 - M_PI * bw / sample_rate has come down to 0: every output sample is  *)
(* gain_factor * input and the history does not contribute.                *)
(* reson.c does not stop the radius at 0: a larger bandwidth makes it      *)
(* negative and both history terms come back.                              *)
(***************************************************************************)
RadiusL(e) ==
  reson_pole_radius(e.memin[e.filter.bw_control_value_l], e.filter.sample_rate)
GainL(e) ==
  reson_gain_factor(RadiusL(e),
                    reson_cos_pole_angle(RadiusL(e),
                                         e.memin[e.filter.freq_control_value_l],
                                         e.filter.sample_rate))
GainTimesInput(e) ==
  \A i \in 1..e.n : OutL(e)[i] = RMul(GainL(e), InL(e)[i])

C13_ResonDegenerate ==
  (kernel = "reson" /\ JustRan /\ ~RLess(Zero, RadiusL(Last)))
  => GainTimesInput(Last)

\* at a radius of exactly 0 the output is gain_factor * input
C13_ResonRadiusZero ==
  (kernel = "reson" /\ JustRan /\ RadiusL(Last) = Zero) => GainTimesInput(Last)

(***************************************************************************)
(* C14: a comb run() call uses a delay within 1..MAX_DELAY: a delay        *)
(* control that truncates to 0 acts as 1 and one above MAX_DELAY acts as   *)
(* MAX_DELAY, so the call writes the outputs and the history it would      *)
(* write with the control set to the clamped value.                        *)
(* comb.c passes (unsigned int)*delay_control_value to filter_channel      *)
(* unchanged.                                                              *)
(***************************************************************************)
ClampDelay(d) ==
  IF Trunc(d) < 1 THEN One
  ELSE IF Trunc(d) > MAX_DELAY THEN Int2Rat(MAX_DELAY) ELSE d

\* the host memory of a logged call with its delay controls clamped
ClampedMem(e) ==
  LET l == e.filter.delay_control_value_l
      r == e.filter.delay_control_value_r
  IN  [a \in DOMAIN e.memin |->
         IF a = l \/ (stereo /\ a = r) THEN ClampDelay(e.memin[a])
         ELSE e.memin[a]]

C14_CombDelayClamped ==
  (kernel = "comb" /\ JustRan)
  => LET c == RunCall(kernel, stereo, Last.filter, Last.heap,
                      ClampedMem(Last), Last.n)
     IN  /\ OutL(Last) = ReadBuf(c.mem, Last.filter.output_buffer_l, Last.n)
         /\ stereo => OutR(Last) = ReadBuf(c.mem, Last.filter.output_buffer_r,
                                           Last.n)
         /\ heap = c.heap

(***************************************************************************)
(* C15: a fir run() call with a frequency control <= 0 divides by no zero  *)
(* and computes its shift by a defined conversion (of the clamped          *)
(* frequency), so no call ever takes its shift from an undefined one.      *)
(* get_sample_shift computes (unsigned long)((1 / (2 * freq)) *            *)
(* sample_rate) from the control as it is.                                 *)
(***************************************************************************)
Undefined(e) == {i \in DOMAIN e.acc : e.acc[i][1] = "U"}

C15_FirFrequencyGuard ==
  (kernel = "fir" /\ life = "active" /\ Calls # <<>>) => Undefined(Last) = {}

\* only frequency controls <= 0 get there
C15_PositiveFrequencyDefined ==
  (kernel = "fir" /\ life = "active" /\ Calls # <<>>)
  => \A i \in Undefined(Last) :
       ~RLess(Zero, Last.memin[Last.acc[i][4]])

(***************************************************************************)
(* C16: when the malloc of instantiate or a calloc of activate fails, no   *)
(* later step dereferences the null instance or the null history buffer.   *)
(* comb.c, fir.c and reson.c check neither return value.                   *)
(***************************************************************************)
C16_AllocationFailureSignalled == fault # "null_dereference"

(***************************************************************************)
(* C17: the calls made on a second instance, in any interleaving, leave    *)
(* the first one as it is when its own calls run alone: while it is        *)
(* active its history buffers stay allocated and its dynamic state is      *)
(* what its own last call (or its activation) left.                        *)
(* The structs are disjoint, but a deactivate on an instance that is not   *)
(* active frees through stale pointers (C5), and the block they name may   *)
(* by then be the other instance's history.                                *)
(***************************************************************************)
\* the dynamic state the instance's own calls have left it in
OwnDyn ==
  IF Calls = <<>>
  THEN [Dyn(kernel, filter, heap) EXCEPT
          !.hl = [i \in DOMAIN @ |-> Zero], !.hr = [i \in DOMAIN @ |-> Zero],
          !.pos = 0, !.pl = Zero, !.pr = Zero]
  ELSE LET m == RunCallConv(kernel, stereo, Last.filter, Last.heap,
                            Last.memin, Last.n, 0)
       IN  Dyn(kernel, m.filter, m.heap)

Untouched ==
  /\ fault # "use_after_free"
  /\ kernel # "iir" => /\ Deref(heap, filter.history_l) = "none"
                       /\ stereo => Deref(heap, filter.history_r) = "none"
  /\ Dyn(kernel, filter, heap) = OwnDyn

C17_InstanceIsolation == life = "active" => Untouched

\* as long as no deactivate has freed through a stale pointer
C17_IsolatedWithoutStrayFree == (life = "active" /\ ~peer.stray) => Untouched

(***************************************************************************)
(* C18: in a stereo instance each channel's outputs, over the run() calls  *)
(* of an activation, are those of a mono instance of the same kernel that  *)
(* is given that channel's controls and input with the same block sizes,   *)
(* whatever the other channel is fed; the channel's history ends up as the *)
(* mono instance's does and the one cursor stands where the mono           *)
(* instance's stands.                                                      *)
(***************************************************************************)
\* a mono instance of the kernel, bound and activated, on a heap of its own
MonoFresh ==
  LET r == activate(kernel,
                    ConnectAll(kernel, instantiate(kernel, filter.sample_rate),
                               Ports(kernel, FALSE)),
                    <<>>, FALSE)
  IN  [filter |-> r[1], heap |-> r[2], mem |-> [a \in Addrs |-> Zero]]

\* what the host hands the mono instance for logged call e: the controls and
\* the input of e's left or right channel
MonoMem(e, right) ==
  IF right
  THEN HostWrite(e.memin, FALSE,
                 ReadBuf(e.memin, HostAddr("ctl1_r"), 2), <<Zero, Zero>>,
                 InR(e), <<>>)
  ELSE e.memin

\* the mono instance after the calls cs
RECURSIVE MonoAfter(_, _)
MonoAfter(cs, right) ==
  IF cs = <<>> THEN MonoFresh
  ELSE LET prev == MonoAfter(SubSeq(cs, 1, Len(cs) - 1), right)
           e == cs[Len(cs)]
       IN  RunCall(kernel, FALSE, prev.filter, prev.heap, MonoMem(e, right),
                   e.n)

MonoOut(cs, right) ==
  ReadBuf(MonoAfter(cs, right).mem, HostAddr("out_l"), cs[Len(cs)].n)

C18_ChannelIndependence ==
  (stereo /\ JustRan) =>
    /\ \A j \in 1..Len(Calls) :
         /\ OutL(Calls[j]) = MonoOut(SubSeq(Calls, 1, j), FALSE)
         /\ OutR(Calls[j]) = MonoOut(SubSeq(Calls, 1, j), TRUE)
    /\ LET d == Dyn(kernel, filter, heap)
           l == MonoAfter(Calls, FALSE)
           r == MonoAfter(Calls, TRUE)
           dl == Dyn(kernel, l.filter, l.heap)
           dr == Dyn(kernel, r.filter, r.heap)
       IN  /\ d.hl = dl.hl /\ d.pl = dl.pl /\ d.pos = dl.pos
           /\ d.hr = dr.hl /\ d.pr = dr.pl /\ d.pos = dr.pos

\* two calls into a stereo instance whose channels were fed different
\* controls and inputs and gave different outputs
C18_Witness ==
  /\ stereo /\ JustRan /\ Len(Calls) >= 2
  /\ Last.n > 0
  /\ ReadBuf(Last.memin, HostAddr("ctl1_l"), 2)
       # ReadBuf(Last.memin, HostAddr("ctl1_r"), 2)
  /\ InL(Last) # InR(Last)
  /\ OutL(Last) # OutR(Last)
  /\ Dyn(kernel, filter, heap).hl # Dyn(kernel, filter, heap).hr
       \/ Dyn(kernel, filter, heap).pl # Dyn(kernel, filter, heap).pr

(***************************************************************************)
(* C19: a run() call allocates and frees nothing, leaves the sample rate,  *)
(* the history length, the history pointers and every port binding as they *)
(* were and writes only the output buffers, the history contents, the      *)
(* cursor and the previous outputs; two calls made from equal dynamic      *)
(* state with equal controls, inputs and frame count give equal outputs    *)
(* and leave equal dynamic state.                                          *)
(***************************************************************************)
\* which blocks the heap holds, their sizes and which of them are allocated
HeapShape(h) == [p \in DOMAIN h |-> <<h[p].live, DOMAIN h[p].data>>]

\* the fields of the struct that run() may assign
RunFields == {"history_position", "previous_sample_l", "previous_sample_r"}

\* the state after logged call number j, where the log or the current state
\* still shows it
PostKnown(j) ==
  \/ j < Len(log) /\ log[j + 1].act = log[j].act
  \/ j = Len(log) /\ life = "active" /\ log[j].act = acts
PostDyn(j) ==
  IF j < Len(log) THEN Dyn(kernel, log[j + 1].filter, log[j + 1].heap)
  ELSE Dyn(kernel, filter, heap)

SameCall(a, b) ==
  /\ Dyn(kernel, a.filter, a.heap) = Dyn(kernel, b.filter, b.heap)
  /\ a.n = b.n
  /\ Controls(a) = Controls(b)
  /\ InL(a) = InL(b)
  /\ stereo => InR(a) = InR(b)

C19_ProcessRealTimeSafe ==
  /\ (life = "active" /\ Calls # <<>>) =>
       /\ HeapShape(heap) = HeapShape(Last.heap)
       /\ \A fld \in DOMAIN filter \ RunFields : filter[fld] = Last.filter[fld]
       /\ \A a \in Addrs \ OutAddrs(Last) : mem[a] = Last.memin[a]
  /\ \A i, j \in DOMAIN log :
       SameCall(log[i], log[j]) =>
         /\ OutL(log[i]) = OutL(log[j])
         /\ stereo => OutR(log[i]) = OutR(log[j])
         /\ (PostKnown(i) /\ PostKnown(j)) => PostDyn(i) = PostDyn(j)

\* the same call made twice from the same dynamic state; it wrote output
\* and moved the state
C19_Witness ==
  /\ life = "active" /\ fault = "none" /\ Len(log) >= 2
  /\ \E i \in DOMAIN log :
       /\ i < Len(log)
       /\ SameCall(log[i], Last)
       /\ Last.n > 0
       /\ OutL(Last) # [k \in 1..Last.n |-> Zero]
       /\ Dyn(kernel, filter, heap) # Dyn(kernel, Last.filter, Last.heap)

(***************************************************************************)
(* C20: a run() call reads each of the instance's control ports exactly    *)
(* once, so the value it works with is the same for every frame of the     *)
(* block.                                                                  *)
(* comb.c, iir.c and reson.c read their controls before the loop, and so   *)
(* does fir.c its frequency; but fir.c's loop body dereferences            *)
(* filter->wet_control_value twice in every iteration.                     *)
(***************************************************************************)
\* the host locations of the control ports of this instance
ControlAddrs ==
  {HostAddr(PortRole(kernel, p)) : p \in Ports(kernel, stereo)}
    \cap {HostAddr("ctl1_l"), HostAddr("ctl2_l"),
          HostAddr("ctl1_r"), HostAddr("ctl2_r")}

\* how often logged call e read host location a
ReadCount(e, a) ==
  Cardinality({i \in DOMAIN e.acc :
                 e.acc[i][1] = "R" /\ e.acc[i][2] = "mem" /\ e.acc[i][4] = a})

FirWetAddrs == {HostAddr("ctl2_l"), HostAddr("ctl2_r")}

C20_ControlsReadOnce ==
  JustRan => \A a \in ControlAddrs : ReadCount(Last, a) = 1

\* all controls but fir's wet are read once; wet is read twice per frame
C20_ControlsReadOnceButFirWet ==
  JustRan =>
    \A a \in ControlAddrs :
      ReadCount(Last, a) = IF kernel = "fir" /\ a \in FirWetAddrs
                           THEN 2 * Last.n ELSE 1

(***************************************************************************)
(* C21: once activate() has run, comb and fir have history_length >= 1,    *)
(* their cursor satisfies 0 <= history_position < history_length, every    *)
(* history element a run() call reads or writes has an index below         *)
(* history_length, and no index is taken modulo zero.                      *)
(* fir.c computes history_length = (unsigned long)(sample_rate / 2), which *)
(* is 0 at a sample rate of 1.                                             *)
(***************************************************************************)
HasCursor == kernel \in {"comb", "fir"}

\* the indices at which logged call e touched the heap
HeapIndices(e) ==
  {e.acc[i][4] : i \in {j \in DOMAIN e.acc : e.acc[j][2] = "heap"}}

IndexBounds ==
  /\ filter.history_position >= 0
  /\ filter.history_position < filter.history_length
  /\ \A j \in DOMAIN Calls :
       \A x \in HeapIndices(Calls[j]) : x >= 0 /\ x < filter.history_length

C21_CursorAndIndexBounds ==
  (HasCursor /\ life = "active") =>
    /\ filter.history_length >= 1
    /\ fault # "modulo_by_zero"
    /\ IndexBounds

\* with a history of at least one element the bounds hold
C21_BoundsWhenLengthPositive ==
  (HasCursor /\ life = "active" /\ filter.history_length >= 1) =>
    (fault # "modulo_by_zero" /\ IndexBounds)

(***************************************************************************)
(* C22: in a fir instance, a run() call whose frequency control is at      *)
(* least MIN_FREQ works with a sample shift strictly below history_length. *)
(* activate_filter sizes the history as get_sample_shift(MIN_FREQ, rate),  *)
(* the very shift a frequency of MIN_FREQ asks for: the shift then equals  *)
(* history_length and the write slot wraps onto the cursor.                *)
(***************************************************************************)
\* the frequency controls logged call e was given, one per channel
FreqsOf(e) ==
  {e.memin[HostAddr("ctl1_l")]}
    \cup (IF stereo THEN {e.memin[HostAddr("ctl1_r")]} ELSE {})

AtLeastMinFreq(freq) == ~RLess(freq, Int2Rat(MIN_FREQ))

C22_FirShiftBelowLength ==
  (kernel = "fir" /\ life = "active") =>
    \A j \in DOMAIN Calls : \A freq \in FreqsOf(Calls[j]) :
      AtLeastMinFreq(freq) =>
        get_sample_shift(freq, filter.sample_rate) < filter.history_length

\* the shift of a frequency of at least MIN_FREQ never exceeds history_length
C22_FirShiftAtMostLength ==
  (kernel = "fir" /\ life = "active") =>
    \A j \in DOMAIN Calls : \A freq \in FreqsOf(Calls[j]) :
      AtLeastMinFreq(freq) =>
        get_sample_shift(freq, filter.sample_rate) <= filter.history_length

(***************************************************************************)
(* C23: fir with frequency and wet held since activation and a shift with  *)
(* 0 < shift < history_length: output sample n of the activation, however  *)
(* the samples are split over run() calls, is                              *)
(*   input[n] * (1 - wet/2) + input[n - shift] * (wet/2),                  *)
(* with input[n - shift] = 0 for n < shift.                                *)
(***************************************************************************)
\* a fir instance at a sample rate that gives a history of three elements,
\* and a host with enough calls to take the cursor round it
DelayRate == 6
DelayParamSeq == << <<(<<3, 2>>), One>>, <<Int2Rat(2), Half>> >>

InitDelay ==
  /\ kernel = "fir"
  /\ stereo \in BOOLEAN
  /\ filter = instantiate(kernel, DelayRate)
  /\ heap = <<>>
  /\ mem = [a \in Addrs |-> Zero]
  /\ life = "created"
  /\ fault = "none"
  /\ log = <<>>
  /\ fresh = NoDyn
  /\ acts = 0
  /\ bind = [port |-> Junk, loc |-> Junk, before |-> filter]
  /\ budget = ImpulseFrames
  /\ peer = NoPeer

RunDelay == RunWith(DelayParamSeq, {0})

NextDelay == Connect \/ Activate \/ RunDelay \/ Deactivate \/ Cleanup

SpecDelay == InitDelay /\ [][NextDelay]_vars

\* the inputs and the outputs of the calls cs on one channel, end to end
RECURSIVE InSeq(_, _)
InSeq(cs, right) ==
  IF cs = <<>> THEN <<>>
  ELSE (IF right THEN InR(Head(cs)) ELSE InL(Head(cs)))
         \o InSeq(Tail(cs), right)
RECURSIVE OutSeq(_, _)
OutSeq(cs, right) ==
  IF cs = <<>> THEN <<>>
  ELSE (IF right THEN OutR(Head(cs)) ELSE OutL(Head(cs)))
         \o OutSeq(Tail(cs), right)

\* <<frequency, wet>> given to one channel in logged call e
FirControls(e, right) ==
  ReadBuf(e.memin, HostAddr(IF right THEN "ctl1_r" ELSE "ctl1_l"), 2)

\* every call of this activation gave the channel the controls c
FirHeld(c, right) == \A k \in DOMAIN Calls : FirControls(Calls[k], right) = c

DelayLine(in, shift, wet) ==
  [n \in DOMAIN in |->
     RAdd(RMul(in[n], RSub(One, RDiv(wet, Int2Rat(2)))),
          RMul(IF n > shift THEN in[n - shift] ELSE Zero,
               RDiv(wet, Int2Rat(2))))]

FirDelayLineOn(right) ==
  \A k \in DOMAIN Calls :
    LET c == FirControls(Calls[k], right)
        shift == get_sample_shift(c[1], filter.sample_rate)
    IN  (FirHeld(c, right) /\ shift > 0 /\ shift < filter.history_length)
        => OutSeq(Calls, right) = DelayLine(InSeq(Calls, right), shift, c[2])

C23_FirDelayLine ==
  (kernel = "fir" /\ JustRan) =>
    /\ FirDelayLineOn(FALSE)
    /\ stereo => FirDelayLineOn(TRUE)

\* four frames in at least two calls with a shift of 2 and wet 1: the cursor
\* has gone round the history, and a delayed 1 has reached the output
C23_Witness ==
  /\ kernel = "fir" /\ JustRan /\ Len(Calls) >= 2
  /\ FirHeld(<< <<3, 2>>, One>>, FALSE)
  /\ get_sample_shift(<<3, 2>>, filter.sample_rate) = 2
  /\ Len(InSeq(Calls, FALSE)) = 4
  /\ InSeq(Calls, FALSE) = <<Zero, One, Zero, Zero>>
  /\ OutSeq(Calls, FALSE) = <<Zero, Half, Zero, Half>>
  /\ filter.history_position = 1

(***************************************************************************)
(* C24: comb, first run() call after activate(), delay control truncating  *)
(* to a delay in 1..MAX_DELAY: output frame i of the call is               *)
(*   input[i] * (1 - g) + g * output[i - delay],  g = sharpness^delay,     *)
(* with output[i - delay] = 0 for i < delay; and in every frame the        *)
(* history is read at the cursor before it is written at                   *)
(* (cursor + delay) mod history_length.                                    *)
(***************************************************************************)
\* <<delay, sharpness>> pairs with a delay of 2, 3 and MAX_DELAY
BlockParamSeq ==
  << <<(<<5, 2>>), Half>>, <<Int2Rat(3), Half>>, <<Int2Rat(MAX_DELAY), One>> >>

InitBlock ==
  /\ kernel = "comb"
  /\ stereo = FALSE
  /\ \E sr \in SampleRates(kernel) : filter = instantiate(kernel, sr)
  /\ heap = <<>>
  /\ mem = [a \in Addrs |-> Zero]
  /\ life = "created"
  /\ fault = "none"
  /\ log = <<>>
  /\ fresh = NoDyn
  /\ acts = 0
  /\ bind = [port |-> Junk, loc |-> Junk, before |-> filter]
  /\ budget = BlockFrames
  /\ peer = NoPeer

RunBlock == RunBlocks(BlockParamSeq, BlockFrames)

NextBlock == ConnectWide \/ Activate \/ RunBlock \/ Deactivate \/ Cleanup

SpecBlock == InitBlock /\ [][NextBlock]_vars

IsHeap(ev) == ev[2] = "heap"
\* the history accesses of logged call e, in the order they were made
HeapEvents(e) == SelectSeq(e.acc, IsHeap)

CombFeedback(e) ==
  LET delay == Trunc(e.memin[e.filter.delay_control_value_l])
      g == RPow(e.memin[e.filter.sharp_control_value_l], delay)
      in == InL(e)
      out == OutL(e)
      hev == HeapEvents(e)
  IN  (delay >= 1 /\ delay <= MAX_DELAY) =>
        /\ \A i \in 1..e.n :
             out[i] = RAdd(RMul(in[i], RSub(One, g)),
                           RMul(g, IF i > delay THEN out[i - delay] ELSE Zero))
        /\ Len(hev) = 2 * e.n
        /\ \A i \in 1..e.n :
             /\ hev[2 * i - 1][1] = "R"
             /\ hev[2 * i - 1][4] = (i - 1) % e.filter.history_length
             /\ hev[2 * i][1] = "W"
             /\ hev[2 * i][4] = (i - 1 + delay) % e.filter.history_length

C24_CombFeedbackDelay ==
  (kernel = "comb" /\ ~stereo /\ JustRan) => CombFeedback(Calls[1])

\* a first call of four frames with a delay of 2 and a sharpness of 1/2,
\* whose third and fourth outputs carry the first and second fed back
C24_Witness ==
  /\ kernel = "comb" /\ ~stereo /\ JustRan /\ Len(Calls) = 1
  /\ Last.n = 4
  /\ Trunc(Last.memin[Last.filter.delay_control_value_l]) = 2
  /\ InL(Last) = <<One, One, Zero, One>>
  /\ OutL(Last) = << <<3, 4>>, <<3, 4>>, <<3, 16>>, <<15, 16>> >>

(***************************************************************************)
(* C25: (as claimed) some frequency and bandwidth give acos an argument    *)
(*   ((2 * r) / (1 + r^2)) * cos(2 * pi * freq / sample_rate),             *)
(*   r = 1 - pi * bandwidth / sample_rate,                                 *)
(* outside [-1, 1].  As 1 + r^2 - 2|r| = (1 - |r|)^2 >= 0, the first       *)
(* factor is within [-1, 1] for every r, and so is the cosine.             *)
(* (as amended) for every frequency and bandwidth the argument reson.c     *)
(* passes to acos is within [-1, 1]; it is 1 or -1 only for r = 1 or -1.   *)
(***************************************************************************)
\* <<frequency, M_PI * bandwidth>>: frequencies 0, 1/4 and 1/2 of the sample
\* rate, bandwidths in and far outside the port's range, negative included:
\* pole radii from 2 down to -3
AcosFreqs == <<Zero, One, Int2Rat(2)>>
AcosParamSeq ==
  [i \in 1..33 |-> <<AcosFreqs[((i - 1) % 3) + 1],
                     Int2Rat(2 * ((i - 1) \div 3) - 4)>>]

\* a mono reson instance and a host that calls run(instance, 0) with these
\* controls: the coefficients are computed before the frame loop
InitAcos ==
  /\ kernel = "reson"
  /\ stereo = FALSE
  /\ \E sr \in SampleRates(kernel) : filter = instantiate(kernel, sr)
  /\ heap = <<>>
  /\ mem = [a \in Addrs |-> Zero]
  /\ life = "created"
  /\ fault = "none"
  /\ log = <<>>
  /\ fresh = NoDyn
  /\ acts = 0
  /\ bind = [port |-> Junk, loc |-> Junk, before |-> filter]
  /\ budget = Budget - 1
  /\ peer = NoPeer

RunAcos == RunBlocks(AcosParamSeq, 0)

NextAcos == Connect \/ Activate \/ RunAcos \/ Deactivate \/ Cleanup

SpecAcos == InitAcos /\ [][NextAcos]_vars

\* what filter_channel passes to acos for the controls <<freq, pibw>>
AcosArgument(c, sample_rate) ==
  reson_cos_pole_angle(reson_pole_radius(c[2], sample_rate), c[1], sample_rate)

InUnitInterval(x) == ~RLess(x, RNeg(One)) /\ ~RLess(One, x)

LiveBlocks == {p \in DOMAIN heap : heap[p].live}
\* the buffers the instance has a pointer to
HeldBlocks ==
  IF kernel = "iir" THEN {}
  ELSE {filter.history_l, filter.history_r} \ {NULL, Junk}

Ownership ==
  /\ fault \notin {"use_after_free", "null_dereference", "double_free",
                   "free_uninitialized"}
  /\ life = "active" => LiveBlocks = HeldBlocks
  /\ life \in {"created", "inactive", "destroyed"} => LiveBlocks = {}

C26_BufferOwnership == Ownership

\* the history buffers one activation needs
BuffersNeeded == IF kernel = "iir" THEN 0 ELSE IF stereo THEN 2 ELSE 1

\* as long as activate was never called on an active instance, which is
\* when the allocator has had to hand out more buffers than one activation
\* needs
C26_OwnershipInRounds == Len(heap) <= BuffersNeeded => Ownership

(***************************************************************************)
(* C27: with each channel's output port bound to that channel's input      *)
(* buffer, a run() call writes the output samples and leaves the dynamic   *)
(* state that the same call from the same state writes and leaves with     *)
(* the output ports bound to buffers of their own; and in that call every  *)
(* read of input sample i comes before the write of output sample i.       *)
(***************************************************************************)
\* logged call e made again with the output ports bound to separate buffers
Separate(e) ==
  LET f == [e.filter EXCEPT
              !.output_buffer_l = HostAddr("out_l"),
              !.output_buffer_r = IF stereo THEN HostAddr("out_r") ELSE @]
  IN  RunCall(kernel, stereo, f, e.heap, e.memin, e.n)

\* the positions in the access sequence acc of op accesses to host address a
Positions(acc, op, a) ==
  {i \in DOMAIN acc : acc[i][1] = op /\ acc[i][2] = "mem" /\ acc[i][4] = a}

\* every read of in + i is made before out + i is written
ReadsBeforeWrite(acc, in, out, n) ==
  \A i \in 0..(n - 1) :
    /\ Positions(acc, "R", in + i) # {}
    /\ \A r \in Positions(acc, "R", in + i), w \in Positions(acc, "W", out + i) :
         r < w

InPlaceBound ==
  /\ filter.output_buffer_l = filter.input_buffer_l
  /\ stereo => filter.output_buffer_r = filter.input_buffer_r

C27_InPlaceProcessing ==
  (JustRan /\ InPlaceBound) =>
    LET sep == Separate(Last)
    IN  /\ sep.fault = "none"
        /\ OutL(Last) = ReadBuf(sep.mem, HostAddr("out_l"), Last.n)
        /\ stereo => OutR(Last) = ReadBuf(sep.mem, HostAddr("out_r"), Last.n)
        /\ Dyn(kernel, filter, heap) = Dyn(kernel, sep.filter, sep.heap)
        /\ ReadsBeforeWrite(sep.acc, HostAddr("in_l"), HostAddr("out_l"),
                            Last.n)
        /\ stereo => ReadsBeforeWrite(sep.acc, HostAddr("in_r"),
                                      HostAddr("out_r"), Last.n)

\* a second in-place call of MaxFrames frames that has overwritten its
\* input with other values
C27_Witness ==
  /\ JustRan /\ InPlaceBound /\ Len(Calls) >= 2
  /\ Last.n = MaxFrames
  /\ \A i \in 1..Last.n : OutL(Last)[i] # InL(Last)[i]
  /\ ReadBuf(mem, HostAddr("in_l"), Last.n) = OutL(Last)

==========================================================================
